---- MODULE Spec2Model ----
(***************************************************************************)
(* A model of the TOE popper (src/toe_popper.py): the slot clock, the work *)
(* window gate, the admission rule, the idle debouncer and the scheduler   *)
(* loop of main(), with prompt_once and the calendar collaborator.         *)
(*                                                                         *)
(* A datetime is an integer number of seconds since midnight of day 0 of   *)
(* the modelled time line (local wall clock).  A string is a sequence of   *)
(* one-character strings, so that strip(), lower() and `in` are computed.  *)
(***************************************************************************)
EXTENDS Integers, Sequences, FiniteSets, TLC

(***************************************************************************)
(* Bounds of the model.                                                    *)
(***************************************************************************)
\* days 0..MaxDay of the time line
MaxDay == 1
\* a tick polls one of the next MaxJump sample instants after the clock
MaxJump == 2
\* longest string of the title-match specification
MaxLen == 3
\* largest number of calendar items of the admission specifications
MaxItems == 2

(***************************************************************************)
(* Program constants.                                                      *)
(***************************************************************************)
\* main: IDLE_THRESHOLD_SEC = 60
IDLE_THRESHOLD_SEC == 60
\* main: now.second < 5
BOUNDARY_SECONDS == 5

None == "None"
\* no slot key yet (last_slot_key_prompted = None)
NoKey == <<>>
\* no instant
NoTime == 0 - 1

(***************************************************************************)
(* datetime                                                                *)
(***************************************************************************)
DayOf(t) == t \div 86400
HourOf(t) == (t % 86400) \div 3600
MinuteOf(t) == (t % 3600) \div 60
SecondOf(t) == t % 60
\* datetime.replace(hour=h, minute=m, second=0, microsecond=0)
ReplaceHM(t, h, m) == DayOf(t) * 86400 + h * 3600 + m * 60
\* datetime.replace(minute=m, second=0, microsecond=0)
ReplaceM(t, m) == DayOf(t) * 86400 + HourOf(t) * 3600 + m * 60
At(d, h, m, s) == d * 86400 + h * 3600 + m * 60 + s

\* parse_hhmm: "HH:MM" -> (h, m); an HH:MM string is kept as the pair of its fields
parse_hhmm(s) == <<s[1], s[2]>>

\* faulty variant: the seconds of now are not zeroed
current_slot_KeepSeconds(n, slot_minutes) ==
    LET minute == (MinuteOf(n) \div slot_minutes) * slot_minutes
        start == ReplaceM(n, minute) + SecondOf(n)
    IN  <<start, start + slot_minutes * 60>>

\* faulty variant: with 30-minute slots minute 30 is put in the first half hour
current_slot_LateHalf(n, slot_minutes) ==
    LET minute == IF slot_minutes = 30
                  THEN (IF MinuteOf(n) <= 30 THEN 0 ELSE 30)
                  ELSE (MinuteOf(n) \div slot_minutes) * slot_minutes
        start == ReplaceM(n, minute)
    IN  <<start, start + slot_minutes * 60>>

\* current_slot, given the instant n that its own now_local() call returns
current_slot(n, slot_minutes) ==
    LET minute == IF slot_minutes = 30
                  THEN (IF MinuteOf(n) < 30 THEN 0 ELSE 30)
                  ELSE (MinuteOf(n) \div slot_minutes) * slot_minutes
        start == ReplaceM(n, minute)
    IN  <<start, start + slot_minutes * 60>>

\* faulty variant: the end of the window counts as inside
within_work_window_InclusiveEnd(c, t) ==
    LET s == ReplaceHM(t, parse_hhmm(c.work_window.start)[1],
                       parse_hhmm(c.work_window.start)[2])
        e == ReplaceHM(t, parse_hhmm(c.work_window.end)[1],
                       parse_hhmm(c.work_window.end)[2])
    IN  s <= t /\ t <= e

\* faulty variant: the start of the window counts as outside
within_work_window_ExclusiveStart(c, t) ==
    LET s == ReplaceHM(t, parse_hhmm(c.work_window.start)[1],
                       parse_hhmm(c.work_window.start)[2])
        e == ReplaceHM(t, parse_hhmm(c.work_window.end)[1],
                       parse_hhmm(c.work_window.end)[2])
    IN  s < t /\ t < e

within_work_window(c, t) ==
    LET sh == parse_hhmm(c.work_window.start)[1]
        sm == parse_hhmm(c.work_window.start)[2]
        eh == parse_hhmm(c.work_window.end)[1]
        em == parse_hhmm(c.work_window.end)[2]
        s == ReplaceHM(t, sh, sm)
        e == ReplaceHM(t, eh, em)
    IN  s <= t /\ t < e

\* s.strftime("%Y-%m-%d %H:%M"): the date, hour and minute of s; seconds are dropped
SlotKey(s) == <<DayOf(s), HourOf(s), MinuteOf(s)>>

\* ol_time_str: "%m/%d/%Y %H:%M", read back by the calendar as a minute instant
ol_time_str(dt) == dt - SecondOf(dt)

(***************************************************************************)
(* str                                                                     *)
(***************************************************************************)
IsSpace(c) == c = " "

Lower(c) ==
    CASE c = "A" -> "a"
      [] c = "B" -> "b"
      [] c = "C" -> "c"
      [] c = "E" -> "e"
      [] c = "F" -> "f"
      [] c = "L" -> "l"
      [] c = "N" -> "n"
      [] c = "Q" -> "q"
      [] c = "R" -> "r"
      [] c = "S" -> "s"
      [] c = "T" -> "t"
      [] c = "W" -> "w"
      [] c = "Y" -> "y"
      [] OTHER -> c

\* str.lower()
lower(s) == [i \in 1..Len(s) |-> Lower(s[i])]

RECURSIVE lstrip(_)
lstrip(s) == IF s # <<>> /\ IsSpace(Head(s)) THEN lstrip(Tail(s)) ELSE s

RECURSIVE rstrip(_)
rstrip(s) ==
    IF s # <<>> /\ IsSpace(s[Len(s)]) THEN rstrip(SubSeq(s, 1, Len(s) - 1)) ELSE s

\* str.strip()
strip(s) == lstrip(rstrip(s))

\* a in b, for strings
Contains(a, b) ==
    \E i \in 0..(Len(b) - Len(a)) : SubSeq(b, i + 1, i + Len(a)) = a

\* faulty variant: the subject is compared as it is, without strip()
is_focus_title_NoStrip(subject, focus_title, mode) ==
    IF mode = "equals_ci" THEN lower(subject) = lower(focus_title)
    ELSE IF mode = "contains_ci" THEN Contains(lower(focus_title), lower(subject))
    ELSE subject = focus_title

\* _is_focus_title(subject, focus_title, mode)
is_focus_title(subject, focus_title, mode) ==
    LET s == strip(subject)
        ft == focus_title
    IN  IF mode = "equals_ci" THEN lower(s) = lower(ft)
        ELSE IF mode = "contains_ci" THEN Contains(lower(ft), lower(s))
        ELSE s = ft

(***************************************************************************)
(* The calendar collaborator.  A calendar item is a record                 *)
(*   [Subject, Start, End, AllDayEvent, readable]                          *)
(* where readable = FALSE stands for an item whose attribute access raises.*)
(* A fault record [primary, fallback] says which Restrict call raises.     *)
(***************************************************************************)
\* items.Restrict("[Start] < 'lt' AND [End] > 'gt'" and, when no_all_day,
\* " AND [AllDayEvent] = False"): the items that satisfy the restriction
Restrict(items, lt, gt, no_all_day) ==
    SelectSeq(items, LAMBDA itm :
        itm.Start < lt /\ itm.End > gt /\ (no_all_day => ~itm.AllDayEvent))

\* the try/except around the query of events_in_range and find_focus_occurrences:
\* [raised |-> TRUE] when the fallback query raises too
Restricted(items, start, end, faults) ==
    IF ~faults.primary
    THEN [raised |-> FALSE,
          found |-> Restrict(items, ol_time_str(end), ol_time_str(start), TRUE)]
    ELSE IF ~faults.fallback
    THEN [raised |-> FALSE,
          found |-> Restrict(items, ol_time_str(end), ol_time_str(start), FALSE)]
    ELSE [raised |-> TRUE, found |-> <<>>]

\* faulty variant: the in-process all-day test is missing
KeptItem_NoAllDayTest(itm) == itm.readable

\* the loop body of events_in_range: an item is kept unless reading it raises or
\* it is an all-day event
KeptItem(itm) == itm.readable /\ ~itm.AllDayEvent

EventOf(itm) ==
    [Subject |-> strip(itm.Subject), Start |-> itm.Start, End |-> itm.End]

events_in_range(items, start, end, faults) ==
    LET q == Restricted(items, start, end, faults)
        kept == SelectSeq(q.found, KeptItem)
    IN  [raised |-> q.raised,
         out |-> [i \in 1..Len(kept) |-> EventOf(kept[i])]]

\* faulty variant: any number of events is admitted when all of them match the focus title
ShouldPromptEvs_AllFocus(c, evs) ==
    \A i \in 1..Len(evs) :
        is_focus_title(evs[i].Subject, c.prompt_rules.focus_title,
                       c.prompt_rules.focus_match)

\* faulty variant: an occupied slot blocks the prompt only under skip_if_any_event
ShouldPromptEvs_HonoursSkip(c, evs) ==
    IF evs = <<>> THEN TRUE
    ELSE IF Len(evs) = 1
            /\ is_focus_title(evs[1].Subject, c.prompt_rules.focus_title,
                              c.prompt_rules.focus_match)
    THEN TRUE
    ELSE ~c.prompt_rules.skip_if_any_event

\* should_prompt on the list evs that events_in_range returned
ShouldPromptEvs(c, evs) ==
    IF evs = <<>> THEN TRUE
    ELSE IF Len(evs) = 1
            /\ is_focus_title(evs[1].Subject, c.prompt_rules.focus_title,
                              c.prompt_rules.focus_match)
    THEN TRUE
    ELSE FALSE

should_prompt(c, items, slot_start, slot_end, faults) ==
    LET r == events_in_range(items, slot_start, slot_end, faults)
    IN  [raised |-> r.raised,
         evs |-> r.out,
         value |-> IF r.raised THEN FALSE ELSE ShouldPromptEvs(c, r.out)]

\* find_focus_occurrences: the raw items of the slot that match the focus title
find_focus_occurrences(items, slot_start, slot_end, c, faults) ==
    LET q == Restricted(items, slot_start, slot_end, faults)
    IN  [raised |-> q.raised,
         matches |-> SelectSeq(q.found, LAMBDA itm :
             KeptItem(itm)
             /\ is_focus_title(itm.Subject, c.prompt_rules.focus_title,
                               c.prompt_rules.focus_match))]

(***************************************************************************)
(* Configuration                                                           *)
(***************************************************************************)
FocusSprint == <<"F", "o", "c", "u", "s", " ", "S", "p", "r", "i", "n", "t">>

\* DEFAULTS; a dict whose keys are free strings (categories) is kept as the
\* sequence of its entries in key order, {} is <<>>
DEFAULTS ==
    [work_window |-> [start |-> <<9, 0>>, end |-> <<17, 0>>, slot_minutes |-> 30],
     prompt_rules |-> [focus_title |-> FocusSprint, focus_match |-> "equals_ci",
                       skip_if_any_event |-> TRUE],
     ui |-> [remember_last |-> TRUE, snooze_minutes |-> 10],
     outlook |-> [tz_id |-> None],
     categories |-> <<>>]

\* dict.setdefault(k, v)
setdefault(d, k, v) ==
    [j \in DOMAIN d \cup {k} |-> IF j \in DOMAIN d THEN d[j] ELSE v]

\* _merge_defaults: every top-level key of the override replaces the value of
\* the deep copy of DEFAULTS, then the two setdefault calls
merge_defaults(over) ==
    LET cfg0 == [k \in DOMAIN DEFAULTS \cup DOMAIN over |->
                   IF k \in DOMAIN over THEN over[k] ELSE DEFAULTS[k]]
        cfg1 == setdefault(cfg0, "categories", <<>>)
    IN  [setdefault(cfg1, "outlook", <<>>) EXCEPT
            !.outlook = setdefault(@, "tz_id", None)]

\* a category name, its timecode and its Outlook label
Dev == <<"D", "e", "v">>
Ops == <<"O", "p", "s">>
TC == <<"T", "C">>
BlueCategory == "Blue category"

\* the "categories" object of a config.json
Categories ==
    <<[name |-> Dev, outlook_category |-> BlueCategory, jira_timecodes |-> <<TC>>]>>

\* load_config() when config.json sets the categories and nothing else
Configured == merge_defaults([categories |-> Categories])

\* the configurations the scheduler is run with
Configs == {Configured}

\* a configuration file that overrides the work window
Window(c, start, end) ==
    [c EXCEPT !.work_window.start = start, !.work_window.end = end]

\* "HH:MM" of --at when the option is not given
NoAt == <<>>

\* parse_args() of a command line without options: the scheduler loop
LoopArgs ==
    [force |-> FALSE, force_bypass |-> FALSE, at |-> NoAt, exact_now |-> FALSE,
     preview_only |-> FALSE]

(***************************************************************************)
(* State                                                                   *)
(***************************************************************************)
VARIABLES
    cfg,                     \* the loaded configuration
    args,                    \* the parsed command line
    clock,                   \* the local wall clock at the last read of it
    pc,                      \* where the program is: Waiting, Idle, Admit,
                             \*   Prompting, Snoozed, Crashed, Start, Done
    trigger,                 \* the call site of the pending prompt_once
    loc,                     \* main's locals now, s, e, slot_key
    last_slot_key_prompted,
    was_idle,
    state,                   \* the remembered state dict
    items,                   \* the calendar as the pending prompt_once sees it
    ev,                      \* what the last step did
    watch,                   \* one slot, picked arbitrarily, whose attempts are counted
    wb,                      \* boundary-trigger attempts for the watched slot
    wr,                      \* resume-trigger attempts for the watched slot
    idle_seen,               \* "idle": a sample above 60 s was taken since the last
                             \*   resume event; "resumed": none since it; "start"
    fin,                     \* input of a function under test
    fout                     \* its result

vars == <<cfg, args, clock, pc, trigger, loc, last_slot_key_prompted, was_idle, state,
          items, ev, watch, wb, wr, idle_seen, fin, fout>>

(***************************************************************************)
(* The environment: the instants at which the clock is read, the idle      *)
(* samples, the calendar contents and the answers of the modal.            *)
(***************************************************************************)
SampleMinutes ==
    {<<8, 59>>, <<9, 0>>, <<9, 29>>, <<9, 30>>, <<10, 0>>, <<16, 59>>, <<17, 0>>}

SampleSeconds == {0, 4, 5, 59}

Instants ==
    {At(d, hm[1], hm[2], s) : d \in 0..MaxDay, hm \in SampleMinutes, s \in SampleSeconds}

Horizon == At(MaxDay, 23, 59, 59)

Min(S) == CHOOSE x \in S : \A y \in S : x <= y

\* the first MaxJump sample instants at or after c
NextInstants(c) ==
    LET after == {t \in Instants : t >= c}
    IN  {t \in after : Cardinality({u \in after : u < t}) < MaxJump}

\* get_idle_seconds()
IdleSamples == {0, 60, 61}

\* the two reads of the clock in one tick (now_local() in main, then again in
\* current_slot) differ by less than the time of a statement: they fall in
\* different minutes only when the first is in the last second of a minute
ClockSkew(now) == IF SecondOf(now) = 59 THEN {0, 1} ELSE {0}

Standup == <<"S", "t", "a", "n", "d", "u", "p">>

Item(subject, start, end, all_day) ==
    [Subject |-> subject, Start |-> start, End |-> end, AllDayEvent |-> all_day,
     readable |-> TRUE]

\* calendars the loop meets at a prompt attempt for the slot [s, e)
CalSamples(s, e) ==
    {<<>>,
     <<Item(FocusSprint, s, e, FALSE)>>,
     <<Item(FocusSprint, s, e, FALSE), Item(FocusSprint, s, e, FALSE)>>,
     <<Item(Standup, s, e, FALSE)>>,
     <<Item(FocusSprint, s, e, FALSE), Item(Standup, s + 300, e, FALSE)>>,
     <<Item(Standup, s - 1800, s, FALSE)>>,
     <<Item(Standup, ReplaceHM(s, 0, 0), ReplaceHM(s, 0, 0) + 86400, TRUE)>>}

NoFaults == [primary |-> FALSE, fallback |-> FALSE]

FaultSamples ==
    {NoFaults, [primary |-> TRUE, fallback |-> FALSE],
     [primary |-> TRUE, fallback |-> TRUE]}

\* a remembered value that is None, kept as a sequence so that it can be
\* compared with the names of the categories
NoStr == <<None>>

\* load_state() without a state file
NoState == [last_category |-> NoStr, last_timecode |-> NoStr]

\* cat_names = sorted(categories.keys())
cat_names(cats) == [i \in 1..Len(cats) |-> cats[i].name]

\* categories.get(sel, {}).get("jira_timecodes", [])
jira_timecodes(cats, sel) ==
    IF \E i \in 1..Len(cats) : cats[i].name = sel
    THEN cats[CHOOSE i \in 1..Len(cats) : cats[i].name = sel].jira_timecodes
    ELSE <<>>

\* the category selected when the dialog opens
initial_cat(cats, rem) ==
    IF \E i \in 1..Len(cats) : cats[i].name = rem.last_category
    THEN rem.last_category
    ELSE IF cats # <<>> THEN cats[1].name
    ELSE <<>>

\* refresh_timecodes(): the timecode selected for the category sel
refresh_timecodes(cats, sel, rem) ==
    LET tcs == jira_timecodes(cats, sel)
    IN  IF \E i \in 1..Len(tcs) : tcs[i] = rem.last_timecode THEN rem.last_timecode
        ELSE IF tcs # <<>> THEN tcs[1]
        ELSE <<>>

\* faulty variant: the text is not validated
on_save_AnyText(txt, cat, code) ==
    IF strip(code) = <<>>
    THEN [closed |-> FALSE, last |-> "missing_timecode"]
    ELSE [closed |-> TRUE, last |-> "save",
          result |-> [action |-> "save", text |-> strip(txt), category |-> cat,
                      timecode |-> strip(code)]]

\* on_save() with txt in the text box and cat, code selected: a warning and the
\* dialog stays open, or the result is set and the window destroyed
on_save(txt, cat, code) ==
    IF strip(txt) = <<>>
    THEN [closed |-> FALSE, last |-> "missing_text"]
    ELSE IF strip(code) = <<>>
    THEN [closed |-> FALSE, last |-> "missing_timecode"]
    ELSE [closed |-> TRUE, last |-> "save",
          result |-> [action |-> "save", text |-> strip(txt), category |-> cat,
                      timecode |-> strip(code)]]

\* what the user types in the loop and one-shot specifications
ModalTexts == {<<"w">>}

\* the result of a Save pressed with txt, cat and code, if on_save lets it through
SavedBy(txt, cat, code) ==
    LET r == on_save(txt, cat, code) IN IF r.closed THEN {r.result} ELSE {}

\* run_modal_tk's results for the categories cats when the text is one of texts:
\* Skip, Snooze, and every Save that on_save lets through
ModalResults(cats, texts) ==
    {[action |-> "skip"], [action |-> "snooze"]} \cup
    UNION {UNION {UNION {SavedBy(t, cats[i].name, cats[i].jira_timecodes[k]) :
                           k \in 1..Len(cats[i].jira_timecodes)} :
                    i \in 1..Len(cats)} :
             t \in texts}

\* which collaborator calls raise while a Save is processed: the re-query of the
\* slot (primary, fallback), every Delete, the creation of the appointment
SaveFaults(requery, delete, create) ==
    [requery |-> requery, delete |-> delete, create |-> create]

NoSaveFaults == SaveFaults(NoFaults, FALSE, FALSE)

SaveFaultSamples ==
    {NoSaveFaults,
     SaveFaults([primary |-> TRUE, fallback |-> FALSE], FALSE, FALSE),
     SaveFaults([primary |-> TRUE, fallback |-> TRUE], FALSE, FALSE),
     SaveFaults(NoFaults, TRUE, FALSE),
     SaveFaults(NoFaults, FALSE, TRUE)}

\* the calendars a query can return: the content of a calendar whose query
\* raises is never seen
CalendarsSeen(f, s, e) == IF f.primary /\ f.fallback THEN {<<>>} ELSE CalSamples(s, e)

(***************************************************************************)
(* The poll cadence.  The loop sleeps one second between ticks, so a tick  *)
(* is made in every second in which the loop is not blocked.  A tick in    *)
(* which the boundary trigger is not enabled and the idle sample repeats   *)
(* the previous one changes nothing, and the model leaves such ticks out:  *)
(* the next modelled poll is at a sample instant, but never later than the *)
(* first second in which the boundary trigger is enabled.                  *)
(***************************************************************************)
KeyTime(k) == At(k[1], k[2], k[3], 0)

\* faulty variant: the slot key is not compared
BoundaryFires_NoDedup(now, slot_key, last) == SecondOf(now) < BOUNDARY_SECONDS

\* the boundary trigger's condition
BoundaryFires(now, slot_key, last) ==
    slot_key # last /\ SecondOf(now) < BOUNDARY_SECONDS

BoundaryEnabledAt(c, last, u) ==
    /\ within_work_window(c, u)
    /\ BoundaryFires(u, SlotKey(current_slot(u, c.work_window.slot_minutes)[1]), last)

FirstEnabled(c, last, t) ==
    LET day0 == DayOf(t) * 86400
        ws == parse_hhmm(c.work_window.start)
        cands == {t + 1, t + 60 - SecondOf(t),
                  day0 + ws[1] * 3600 + ws[2] * 60,
                  day0 + 86400 + ws[1] * 3600 + ws[2] * 60}
                 \cup (IF last = NoKey THEN {}
                       ELSE {KeyTime(last) + c.work_window.slot_minutes * 60})
        en == {u \in cands : u > t /\ u <= Horizon /\ BoundaryEnabledAt(c, last, u)}
    IN  IF en = {} THEN NoTime ELSE Min(en)

PollTimes(c, last, t) ==
    LET fe == FirstEnabled(c, last, t)
        cands == NextInstants(t + 1) \cup (IF fe = NoTime THEN {} ELSE {fe})
    IN  {n \in cands : fe = NoTime \/ n <= fe}

(***************************************************************************)
(* main(): the scheduler loop                                              *)
(***************************************************************************)
NoLoc == [now |-> 0, s |-> 0, e |-> 0, slot_key |-> NoKey]

NoEv == [op |-> "none", out |-> None, idle |-> 0]

NoOut == [fn |-> "none"]

Bump(n) == IF n < 2 THEN n + 1 ELSE n

\* the slots whose attempts may be counted: those of the last day, so that the
\* loop is running when the watched slot begins
WatchKeys(c) ==
    {SlotKey(current_slot(t, c.work_window.slot_minutes)[1]) :
        t \in {u \in Instants : DayOf(u) = MaxDay /\ within_work_window(c, u)}}

\* load_state(), and the locals of main() before the loop
LoopStart ==
    /\ pc = "Waiting"
    /\ trigger = None
    /\ loc = NoLoc
    /\ last_slot_key_prompted = NoKey
    /\ was_idle = FALSE
    /\ state = NoState
    /\ items = <<>>
    /\ ev = NoEv
    /\ wb = 0
    /\ wr = 0
    /\ idle_seen = "start"

Init ==
    /\ cfg \in Configs
    /\ args = LoopArgs
    /\ watch \in WatchKeys(cfg)
    /\ \E t0 \in {t \in Instants : DayOf(t) = 0} : clock = t0 - 1
    /\ LoopStart
    /\ fin = None
    /\ fout = NoOut

\* faulty variant: the threshold itself counts as idle
IsIdle_AtThreshold(idle) == idle >= IDLE_THRESHOLD_SEC

\* idle > IDLE_THRESHOLD_SEC
IsIdle(idle) == idle > IDLE_THRESHOLD_SEC

\* faulty variant: a resume event leaves was_idle set
Debounce_NoClear(was, idle) ==
    IF idle > IDLE_THRESHOLD_SEC THEN [was_idle |-> TRUE, resume |-> FALSE]
    ELSE [was_idle |-> was, resume |-> was]

\* the idle debouncer: the new was_idle, and whether this tick is a resume event
Debounce(was, idle) ==
    IF IsIdle(idle) THEN [was_idle |-> TRUE, resume |-> FALSE]
    ELSE IF was THEN [was_idle |-> FALSE, resume |-> TRUE]
    ELSE [was_idle |-> was, resume |-> FALSE]

\* faulty variant: a resume event prompts whatever slot was prompted last
ResumeFires_Always(slot_key, last) == TRUE

\* faulty variant: the comparison is inverted
ResumeFires_Inverted(slot_key, last) == slot_key = last

\* the resume trigger's condition, once a resume is signalled
ResumeFires(slot_key, last) == slot_key # last

\* faulty variant: the one-shot branch falls through into the scheduler loop
ReturnPc_NoReturn(trig) == IF trig = "boundary" THEN "Idle" ELSE "Waiting"

\* where control goes when prompt_once returns: to the idle step of the tick
\* (boundary trigger), to the sleep at the end of the tick (resume trigger), or
\* to main's return (one-shot)
ReturnPc(trig) ==
    IF trig = "boundary" THEN "Idle"
    ELSE IF trig = "resume" THEN "Waiting"
    ELSE "Done"

\* the head of one iteration of the loop: now = now_local(), the work window test,
\* current_slot, slot_key and the boundary trigger
Poll ==
    /\ pc = "Waiting"
    /\ \E now \in PollTimes(cfg, last_slot_key_prompted, clock) :
       \E skew \in ClockSkew(now) :
         LET slot == current_slot(now + skew, cfg.work_window.slot_minutes)
             slot_key == SlotKey(slot[1])
         IN  IF ~within_work_window(cfg, now)
                THEN /\ clock' = now
                     /\ ev' = [op |-> "Poll", out |-> "outside", idle |-> 0]
                     /\ UNCHANGED <<pc, trigger, loc, last_slot_key_prompted, wb>>
                ELSE /\ clock' = now
                     /\ loc' = [now |-> now, s |-> slot[1], e |-> slot[2],
                                slot_key |-> slot_key]
                     /\ IF BoundaryFires(now, slot_key, last_slot_key_prompted)
                        THEN /\ last_slot_key_prompted' = slot_key
                             /\ trigger' = "boundary"
                             /\ pc' = "Admit"
                             /\ wb' = IF slot_key = watch THEN Bump(wb) ELSE wb
                             /\ ev' = [op |-> "Poll", out |-> "boundary", idle |-> 0]
                        ELSE /\ pc' = "Idle"
                             /\ ev' = [op |-> "Poll", out |-> "pass", idle |-> 0]
                             /\ UNCHANGED <<trigger, last_slot_key_prompted, wb>>
    /\ UNCHANGED <<cfg, args, was_idle, state, items, watch, wr, idle_seen, fin, fout>>

\* the tail of the iteration: get_idle_seconds(), the debouncer and the resume trigger
IdleCheck ==
    /\ pc = "Idle"
    /\ \E idle \in IdleSamples :
         LET d == Debounce(was_idle, idle)
         IN  /\ was_idle' = d.was_idle
             /\ idle_seen' = IF idle > 60 THEN "idle"
                             ELSE IF d.resume THEN "resumed"
                             ELSE idle_seen
             /\ IF d.resume /\ ResumeFires(loc.slot_key, last_slot_key_prompted)
                THEN /\ last_slot_key_prompted' = loc.slot_key
                     /\ trigger' = "resume"
                     /\ pc' = "Admit"
                     /\ wr' = IF loc.slot_key = watch THEN Bump(wr) ELSE wr
                     /\ ev' = [op |-> "IdleCheck", out |-> "resume_prompt",
                               idle |-> idle]
                ELSE /\ pc' = "Waiting"
                     /\ ev' = [op |-> "IdleCheck",
                               out |-> IF d.resume THEN "resume_dedup"
                                       ELSE IF d.was_idle THEN "idle"
                                       ELSE "active",
                               idle |-> idle]
                     /\ UNCHANGED <<trigger, last_slot_key_prompted, wr>>
    /\ UNCHANGED <<cfg, args, clock, loc, state, items, watch, wb, fin, fout>>

(***************************************************************************)
(* prompt_once                                                             *)
(***************************************************************************)
\* faulty variant: the work window is not enforced on the slot start
prompt_gate_NoWindowCheck(c, its, slot_start, slot_end, bypass, faults) ==
    IF bypass THEN "show"
    ELSE LET sp == should_prompt(c, its, slot_start, slot_end, faults)
         IN  IF sp.raised THEN "raised"
             ELSE IF ~sp.value THEN "blocked"
             ELSE "show"

\* the two gates of prompt_once: "outside", "raised", "blocked" or "show"
prompt_gate(c, its, slot_start, slot_end, bypass, faults) ==
    IF ~bypass /\ ~within_work_window(c, slot_start) THEN "outside"
    ELSE IF bypass THEN "show"
    ELSE LET sp == should_prompt(c, its, slot_start, slot_end, faults)
         IN  IF sp.raised THEN "raised"
             ELSE IF ~sp.value THEN "blocked"
             ELSE "show"

\* bypass=... at the call site of prompt_once
Bypass(trig, a) == trig = "oneshot" /\ a.force_bypass

\* whether prompt_once calls should_prompt, i.e. queries the calendar
AdmissionQueried(c, slot_start, bypass) ==
    ~bypass /\ within_work_window(c, slot_start)

\* prompt_once up to the modal
Admit ==
    /\ pc = "Admit"
    /\ \E f \in FaultSamples : \E cal \in CalendarsSeen(f, loc.s, loc.e) :
         LET bypass == Bypass(trigger, args)
             g == prompt_gate(cfg, cal, loc.s, loc.e, bypass, f)
         IN  /\ ev' = [op |-> "Admit", out |-> g, idle |-> 0, cal |-> cal,
                       queried |-> AdmissionQueried(cfg, loc.s, bypass)]
             /\ pc' = IF g = "show" THEN "Prompting"
                      ELSE IF g = "raised" THEN "Crashed"
                      ELSE ReturnPc(trigger)
             /\ items' = IF g = "show" THEN cal ELSE <<>>
    /\ UNCHANGED <<cfg, args, clock, trigger, loc, last_slot_key_prompted, was_idle,
                   state, watch, wb, wr, idle_seen, fin, fout>>

\* the instants at which the user may answer the modal: at once, at one of the
\* next sample instants, just after the first seconds of the next slot, or a
\* whole slot late (when these are sample instants)
ModalCloseTimes(c, t, l) ==
    {t} \cup NextInstants(t + 1)
        \cup {u \in {l.e + BOUNDARY_SECONDS, l.e + c.work_window.slot_minutes * 60} :
                u > t /\ u \in Instants}

\* the state dict after a Save
Remember(c, st, res) ==
    IF c.ui.remember_last
    THEN [last_category |-> strip(res.category), last_timecode |-> strip(res.timecode)]
    ELSE st

NoItem == Item(<<>>, 0, 0, FALSE)

\* one collaborator call made while a modal result is processed
Call(fn, raised, itm) == [fn |-> fn, raised |-> raised, item |-> itm]

\* for occ in focus_occurs: occ.Delete()
DeleteCalls(occ, sf) == [i \in 1..Len(occ) |-> Call("Delete", sf.delete, occ[i])]

\* cats.get(cat, {}).get("outlook_category")
outlook_category(cats, cat) ==
    IF \E i \in 1..Len(cats) : cats[i].name = cat
    THEN cats[CHOOSE i \in 1..Len(cats) : cats[i].name = cat].outlook_category
    ELSE None

\* BusyStatus of a busy appointment
olBusy == 2

\* faulty variant: the category label is not set
create_appointment_NoLabel(start, end, subject, label) ==
    [Subject |-> subject, Start |-> start, End |-> end, AllDayEvent |-> FALSE,
     readable |-> TRUE, BusyStatus |-> olBusy, Categories |-> ""]

\* the appointment create_appointment saves: the slot's boundaries, Subject,
\* BusyStatus, and Categories when a label is given
create_appointment(start, end, subject, label) ==
    [Subject |-> subject, Start |-> start, End |-> end, AllDayEvent |-> FALSE,
     readable |-> TRUE, BusyStatus |-> olBusy,
     Categories |-> IF label = None THEN "" ELSE label]

\* create_appointment(app, calendar, slot_start, slot_end, subj, outlook_category),
\* or _preview_log under --preview-only
CommitCalls(c, a, l, res, sf) ==
    LET appt == create_appointment(l.s, l.e, strip(res.text),
                                   outlook_category(c.categories, strip(res.category)))
    IN  IF a.preview_only THEN <<Call("_preview_log", FALSE, appt)>>
        ELSE <<Call("create_appointment", sf.create, appt)>>

\* faulty variant: the appointment is created before the placeholder is deleted
SaveCalls_CreateFirst(dels, commit) == commit \o dels

\* faulty variant: a Delete that raises ends the processing of the Save
SaveCalls_DeleteFatal(dels, commit) ==
    IF \E i \in 1..Len(dels) : dels[i].raised
    THEN SubSeq(dels, 1, CHOOSE i \in 1..Len(dels) :
                            dels[i].raised /\ \A j \in 1..(i - 1) : ~dels[j].raised)
    ELSE dels \o commit

\* the body of "if text and tcode" after the re-query: the Delete loop, each
\* Delete in its own try/except, then the creation in its own try/except
SaveCalls(dels, commit) == dels \o commit

\* save_state(state) when remember_last is set
RememberCalls(c) ==
    IF c.ui.remember_last THEN <<Call("save_state", FALSE, NoItem)>> ELSE <<>>

\* faulty variant: the state is remembered only when an entry was created
ProcessResult_RememberOnSuccess(c, a, st, its, l, res, sf) ==
    IF res.action = "save"
    THEN LET text == strip(res.text)
             tcode == strip(res.timecode)
             q == find_focus_occurrences(its, l.s, l.e, c, sf.requery)
             created == ~a.preview_only /\ ~sf.create
         IN  IF text # <<>> /\ tcode # <<>>
             THEN IF q.raised
                  THEN [raised |-> TRUE,
                        calls |-> <<Call("find_focus_occurrences", TRUE, NoItem)>>,
                        state |-> st]
                  ELSE [raised |-> FALSE,
                        calls |-> <<Call("find_focus_occurrences", FALSE, NoItem)>>
                                  \o SaveCalls(DeleteCalls(q.matches, sf),
                                               CommitCalls(c, a, l, res, sf))
                                  \o (IF created THEN RememberCalls(c) ELSE <<>>),
                        state |-> IF created THEN Remember(c, st, res) ELSE st]
             ELSE [raised |-> FALSE, calls |-> RememberCalls(c),
                   state |-> Remember(c, st, res)]
    ELSE IF res.action = "snooze"
    THEN [raised |-> FALSE, calls |-> <<Call("sleep", FALSE, NoItem)>>, state |-> st]
    ELSE [raised |-> FALSE, calls |-> <<>>, state |-> st]

\* prompt_once after the modal: [raised, calls, state], the calls in order
ProcessResult(c, a, st, its, l, res, sf) ==
    IF res.action = "save"
    THEN LET text == strip(res.text)
             tcode == strip(res.timecode)
             q == find_focus_occurrences(its, l.s, l.e, c, sf.requery)
         IN  IF text # <<>> /\ tcode # <<>>
             THEN IF q.raised
                  THEN [raised |-> TRUE,
                        calls |-> <<Call("find_focus_occurrences", TRUE, NoItem)>>,
                        state |-> st]
                  ELSE [raised |-> FALSE,
                        calls |-> <<Call("find_focus_occurrences", FALSE, NoItem)>>
                                  \o SaveCalls(DeleteCalls(q.matches, sf),
                                               CommitCalls(c, a, l, res, sf))
                                  \o RememberCalls(c),
                        state |-> Remember(c, st, res)]
             ELSE [raised |-> FALSE, calls |-> RememberCalls(c),
                   state |-> Remember(c, st, res)]
    ELSE IF res.action = "snooze"
    THEN [raised |-> FALSE, calls |-> <<Call("sleep", FALSE, NoItem)>>, state |-> st]
    ELSE [raised |-> FALSE, calls |-> <<>>, state |-> st]

\* run_modal_tk returns res, at some later instant, and the result is processed
\* against the calendar as it was at admission
Modal ==
    /\ pc = "Prompting"
    /\ \E res \in ModalResults(cfg.categories, ModalTexts) : \E close \in ModalCloseTimes(cfg, clock, loc) :
       \E sf \in (IF res.action = "save" THEN SaveFaultSamples ELSE {NoSaveFaults}) :
         LET p == ProcessResult(cfg, args, state, items, loc, res, sf)
         IN  /\ clock' = close
             /\ ev' = [op |-> "Modal", out |-> res.action, idle |-> 0,
                       calls |-> p.calls, res |-> res]
             /\ state' = p.state
             /\ pc' = IF p.raised THEN "Crashed"
                      ELSE IF res.action = "snooze" THEN "Snoozed"
                      ELSE ReturnPc(trigger)
    /\ items' = <<>>
    /\ UNCHANGED <<cfg, args, trigger, loc, last_slot_key_prompted, was_idle,
                   watch, wb, wr, idle_seen, fin, fout>>

\* faulty variant: the snooze sleeps for snooze_minutes seconds
SnoozeSeconds_NoFactor(c) == c.ui.snooze_minutes

\* the argument of time.sleep in the snooze branch
SnoozeSeconds(c) == c.ui.snooze_minutes * 60

\* faulty variant: the return from the snooze forgets which slot was prompted
Wake_ForgetsSlot ==
    /\ pc = "Snoozed"
    /\ clock' = clock + SnoozeSeconds(cfg)
    /\ pc' = ReturnPc(trigger)
    /\ last_slot_key_prompted' = NoKey
    /\ ev' = [op |-> "Wake", out |-> None, idle |-> 0]
    /\ UNCHANGED <<cfg, args, trigger, loc, was_idle, state,
                   items, watch, wb, wr, idle_seen, fin, fout>>

\* time.sleep(minutes * 60) of the snooze branch returns
Wake ==
    /\ pc = "Snoozed"
    /\ clock' = clock + SnoozeSeconds(cfg)
    /\ pc' = ReturnPc(trigger)
    /\ ev' = [op |-> "Wake", out |-> None, idle |-> 0]
    /\ UNCHANGED <<cfg, args, trigger, loc, last_slot_key_prompted, was_idle, state,
                   items, watch, wb, wr, idle_seen, fin, fout>>

Next == Poll \/ IdleCheck \/ Admit \/ Modal \/ Wake

Spec == Init /\ [][Next]_vars

(***************************************************************************)
(* The title match and the admission rule as functions: the inputs are     *)
(* drawn by the initial state and one step applies the function.           *)
(***************************************************************************)
\* the scheduler is not running
NotRunning ==
    /\ cfg = DEFAULTS
    /\ args = LoopArgs
    /\ clock = 0
    /\ LoopStart
    /\ watch = NoKey

Alphabet == {"a", "A", "b", " "}

Strings(n) == UNION {[1..k -> Alphabet] : k \in 0..n}

\* the configured match modes, and a mode string that is none of them
Modes == {"equals_ci", "contains_ci", "equals_exact", "regex"}

InitTitle ==
    /\ NotRunning
    /\ fin \in [subject : Strings(MaxLen), focus_title : Strings(MaxLen - 1),
                 mode : Modes]
    /\ fout = NoOut

MatchTitle ==
    /\ fout.fn = "none"
    /\ fout' = [fn |-> "_is_focus_title",
                r |-> is_focus_title(fin.subject, fin.focus_title, fin.mode)]
    /\ UNCHANGED <<cfg, args, clock, pc, trigger, loc, last_slot_key_prompted, was_idle,
                   state, items, ev, watch, wb, wr, idle_seen, fin>>

NextTitle == MatchTitle

SpecTitle == InitTitle /\ [][NextTitle]_vars

\* the slot of the admission specification: 09:00-09:30 of day 0
TestStart == At(0, 9, 0, 0)
TestEnd == At(0, 9, 30, 0)

PaddedFocus == <<" ">> \o FocusSprint \o <<" ">>

\* items inside the slot, across its start, ending at its start, starting at its
\* end, and all-day items of that day; readable or not
ItemSamples ==
    {[Subject |-> sub, Start |-> iv[1], End |-> iv[2], AllDayEvent |-> FALSE,
      readable |-> rd] :
        sub \in {PaddedFocus, Standup},
        iv \in {<<TestStart, TestEnd>>, <<TestStart - 900, TestStart + 900>>,
                <<TestStart - 1800, TestStart>>, <<TestEnd, TestEnd + 1800>>},
        rd \in BOOLEAN}
    \cup {[Subject |-> Standup, Start |-> At(0, 0, 0, 0), End |-> At(1, 0, 0, 0),
           AllDayEvent |-> TRUE, readable |-> rd] : rd \in BOOLEAN}

ItemLists == UNION {[1..k -> ItemSamples] : k \in 0..MaxItems}

AdmitConfigs ==
    {DEFAULTS, [DEFAULTS EXCEPT !.prompt_rules.focus_match = "equals_exact"]}

InitAdmit ==
    /\ NotRunning
    /\ fin \in [items : ItemLists, faults : FaultSamples, c : AdmitConfigs]
    /\ fout = NoOut

QueryEvents ==
    /\ fout.fn = "none"
    /\ fout' = [fn |-> "events_in_range",
                r |-> events_in_range(fin.items, TestStart, TestEnd, fin.faults)]
    /\ UNCHANGED <<cfg, args, clock, pc, trigger, loc, last_slot_key_prompted, was_idle,
                   state, items, ev, watch, wb, wr, idle_seen, fin>>

AskShouldPrompt ==
    /\ fout.fn = "none"
    /\ fout' = [fn |-> "should_prompt",
                r |-> should_prompt(fin.c, fin.items, TestStart, TestEnd, fin.faults)]
    /\ UNCHANGED <<cfg, args, clock, pc, trigger, loc, last_slot_key_prompted, was_idle,
                   state, items, ev, watch, wb, wr, idle_seen, fin>>

\* should_prompt for the same slot under the configuration with
\* skip_if_any_event true and under the one with it false
AskBothSkipRules ==
    /\ fout.fn = "none"
    /\ fout' = [fn |-> "should_prompt twice",
                on |-> should_prompt([fin.c EXCEPT !.prompt_rules.skip_if_any_event = TRUE],
                                     fin.items, TestStart, TestEnd, fin.faults),
                off |-> should_prompt([fin.c EXCEPT !.prompt_rules.skip_if_any_event = FALSE],
                                      fin.items, TestStart, TestEnd, fin.faults)]
    /\ UNCHANGED <<cfg, args, clock, pc, trigger, loc, last_slot_key_prompted, was_idle,
                   state, items, ev, watch, wb, wr, idle_seen, fin>>

NextAdmit == QueryEvents \/ AskShouldPrompt \/ AskBothSkipRules

SpecAdmit == InitAdmit /\ [][NextAdmit]_vars

(***************************************************************************)
(* The slot clock and the work window gate as functions                    *)
(***************************************************************************)
ClockHours == {0, 6, 9, 16, 17, 22, 23}
ClockMinutes == {0, 14, 15, 29, 30, 45, 59}
ClockSeconds == {0, 1, 59}

\* the instants now_local() returns
ClockInstants ==
    {At(d, h, m, s) : d \in 0..MaxDay, h \in ClockHours, m \in ClockMinutes,
                      s \in ClockSeconds}

\* int(cfg["work_window"]["slot_minutes"])
SlotWidths == {7, 15, 20, 30, 45, 60, 90}

\* work windows: the default, one aligned to no slot boundary, and one whose
\* end is not after its start
WindowConfigs ==
    {DEFAULTS, Window(DEFAULTS, <<9, 15>>, <<16, 45>>),
     Window(DEFAULTS, <<22, 0>>, <<6, 0>>)}

\* compute_slot_for_time(cfg, args.at, args.exact_now), given the instant now
\* that its now_local() call returns
compute_slot_for_time(c, at, exact_now, now) ==
    LET mins == c.work_window.slot_minutes
    IN  IF exact_now
        THEN LET t == now - SecondOf(now) IN <<t, t + mins * 60>>
        ELSE IF at = NoAt THEN current_slot(now, mins)
        ELSE LET t == ReplaceHM(now, at[1], at[2])
                 minute == (MinuteOf(t) \div mins) * mins
                 start == ReplaceM(t, minute)
             IN  <<start, start + mins * 60>>

InitClock ==
    /\ NotRunning
    /\ fin \in [now : ClockInstants, slot_minutes : SlotWidths, c : WindowConfigs]
    /\ fout = NoOut

AskSlot ==
    /\ fout.fn = "none"
    /\ fout' = [fn |-> "current_slot", r |-> current_slot(fin.now, fin.slot_minutes)]
    /\ UNCHANGED <<cfg, args, clock, pc, trigger, loc, last_slot_key_prompted,
                   was_idle, state, items, ev, watch, wb, wr, idle_seen, fin>>

AskWindow ==
    /\ fout.fn = "none"
    /\ fout' = [fn |-> "within_work_window", r |-> within_work_window(fin.c, fin.now)]
    /\ UNCHANGED <<cfg, args, clock, pc, trigger, loc, last_slot_key_prompted,
                   was_idle, state, items, ev, watch, wb, wr, idle_seen, fin>>

\* compute_slot_for_time with --at set to the hour and minute of now
AskFakeSlot ==
    /\ fout.fn = "none"
    /\ fout' = [fn |-> "compute_slot_for_time",
                r |-> compute_slot_for_time(
                          [fin.c EXCEPT !.work_window.slot_minutes = fin.slot_minutes],
                          <<HourOf(fin.now), MinuteOf(fin.now)>>, FALSE, fin.now)]
    /\ UNCHANGED <<cfg, args, clock, pc, trigger, loc, last_slot_key_prompted,
                   was_idle, state, items, ev, watch, wb, wr, idle_seen, fin>>

NextClock == AskSlot \/ AskWindow \/ AskFakeSlot

SpecClock == InitClock /\ [][NextClock]_vars

(***************************************************************************)
(* run_modal_tk: the dialog, its callbacks, and prompt_once on the result  *)
(***************************************************************************)
\* the "categories" objects the dialog is opened with: none, one category, and
\* a category with a blank timecode next to one without timecodes
CategorySamples ==
    << <<>>,
       Categories,
       <<[name |-> Dev, outlook_category |-> BlueCategory,
          jira_timecodes |-> <<TC, <<" ">>>>],
         [name |-> Ops, outlook_category |-> None, jira_timecodes |-> <<>>]>> >>

\* the remembered state the dialog is opened with
RememberSamples ==
    {NoState, [last_category |-> Dev, last_timecode |-> TC],
     [last_category |-> <<"X">>, last_timecode |-> <<" ">>]}

\* contents of the text box
DialogTexts == {<<>>, <<" ">>, <<"w">>, <<" ", "w", " ">>}

\* the slot the dialog is shown for
DialogSlot ==
    [now |-> At(0, 9, 0, 0), s |-> At(0, 9, 0, 0), e |-> At(0, 9, 30, 0),
     slot_key |-> SlotKey(At(0, 9, 0, 0))]

\* the configuration whose categories are those of the sample
DialogConfig == [Configured EXCEPT !.categories = CategorySamples[fin.cats]]

InitModal ==
    /\ NotRunning
    /\ fin \in [cats : 1..Len(CategorySamples), rem : RememberSamples]
    /\ fout = NoOut

OnlyDialog ==
    UNCHANGED <<cfg, args, clock, pc, trigger, loc, last_slot_key_prompted,
                was_idle, state, items, ev, watch, wb, wr, idle_seen, fin>>

DialogOpen == fout.fn = "run_modal_tk" /\ fout.open

\* run_modal_tk up to wait_window: result = {"action": "skip"}, the initial
\* category and its timecode
ShowModal ==
    /\ fout.fn = "none"
    /\ LET cat == initial_cat(CategorySamples[fin.cats], fin.rem)
       IN  fout' = [fn |-> "run_modal_tk", open |-> TRUE, txt |-> <<>>, cat |-> cat,
                    code |-> refresh_timecodes(CategorySamples[fin.cats], cat, fin.rem),
                    result |-> [action |-> "skip"], last |-> "shown"]
    /\ OnlyDialog

\* the user edits the text box
TypeText ==
    /\ DialogOpen
    /\ \E t \in DialogTexts : fout' = [fout EXCEPT !.txt = t, !.last = "typed"]
    /\ OnlyDialog

\* <<ComboboxSelected>> of the category box: refresh_timecodes()
SelectCategory ==
    /\ DialogOpen
    /\ \E i \in 1..Len(CategorySamples[fin.cats]) :
         LET cat == cat_names(CategorySamples[fin.cats])[i]
         IN  fout' = [fout EXCEPT
                        !.cat = cat,
                        !.code = refresh_timecodes(CategorySamples[fin.cats], cat, fin.rem),
                        !.last = "selected"]
    /\ OnlyDialog

\* the user picks one of the timecodes of the selected category
SelectTimecode ==
    /\ DialogOpen
    /\ LET tcs == jira_timecodes(CategorySamples[fin.cats], fout.cat)
       IN  \E k \in 1..Len(tcs) : fout' = [fout EXCEPT !.code = tcs[k], !.last = "selected"]
    /\ OnlyDialog

\* the Save button: on_save()
PressSave ==
    /\ DialogOpen
    /\ LET r == on_save(fout.txt, fout.cat, fout.code)
       IN  fout' = IF r.closed
                   THEN [fout EXCEPT !.open = FALSE, !.result = r.result, !.last = r.last]
                   ELSE [fout EXCEPT !.last = r.last]
    /\ OnlyDialog

\* the Skip button: on_skip()
PressSkip ==
    /\ DialogOpen
    /\ fout' = [fout EXCEPT !.open = FALSE, !.result = [action |-> "skip"],
                            !.last = "skip"]
    /\ OnlyDialog

\* the Snooze button: on_snooze()
PressSnooze ==
    /\ DialogOpen
    /\ fout' = [fout EXCEPT !.open = FALSE, !.result = [action |-> "snooze"],
                            !.last = "snooze"]
    /\ OnlyDialog

\* <Escape> is bound to on_skip()
PressEscape ==
    /\ DialogOpen
    /\ fout' = [fout EXCEPT !.open = FALSE, !.result = [action |-> "skip"],
                            !.last = "escape"]
    /\ OnlyDialog

\* WM_DELETE_WINDOW destroys the window and leaves result as it is
CloseWindow ==
    /\ DialogOpen
    /\ fout' = [fout EXCEPT !.open = FALSE, !.last = "closed"]
    /\ OnlyDialog

\* wait_window returns, run_modal_tk returns result and prompt_once processes it
ReturnResult ==
    /\ fout.fn = "run_modal_tk" /\ ~fout.open
    /\ LET p == ProcessResult(DialogConfig, LoopArgs, fin.rem, <<>>, DialogSlot,
                              fout.result, NoSaveFaults)
       IN  fout' = [fn |-> "prompt_once", res |-> fout.result, calls |-> p.calls,
                    state |-> p.state]
    /\ OnlyDialog

NextModal ==
    \/ ShowModal \/ TypeText \/ SelectCategory \/ SelectTimecode \/ PressSave
    \/ PressSkip \/ PressSnooze \/ PressEscape \/ CloseWindow \/ ReturnResult

SpecModal == InitModal /\ [][NextModal]_vars

(***************************************************************************)
(* load_config                                                             *)
(***************************************************************************)
\* what a candidate path holds: no --config option, no file, a text that
\* json.loads rejects, or a JSON object
NoCli == [kind |-> "none"]
Absent == [kind |-> "absent"]
Malformed == [kind |-> "malformed"]
JsonFile(v) == [kind |-> "json", value |-> v]

\* objects found in a config.json: {}, a whole section, sections with some of
\* their keys, sections next to categories
OverrideSamples ==
    << <<>>,
       [work_window |-> [start |-> <<9, 15>>, end |-> <<16, 45>>, slot_minutes |-> 15]],
       [work_window |-> [slot_minutes |-> 15]],
       [ui |-> [snooze_minutes |-> 5], categories |-> Categories],
       [prompt_rules |-> [focus_title |-> <<"F">>, focus_match |-> "contains_ci",
                          skip_if_any_event |-> FALSE],
        outlook |-> <<>>],
       [categories |-> Categories] >>

ConfigFiles ==
    <<Absent, Malformed>> \o [i \in 1..Len(OverrideSamples) |-> JsonFile(OverrideSamples[i])]

\* the candidate with index i; index 0 is the --config option not given
ConfigFile(i) == IF i = 0 THEN NoCli ELSE ConfigFiles[i]

\* _try_load_json(p): the parsed value, or None
try_load_json(f) ==
    IF f.kind = "json" THEN [found |-> TRUE, value |-> f.value] ELSE [found |-> FALSE]

\* "if cfg:" is false for None and for {}
Truthy(j) == j.found /\ DOMAIN j.value # {}

\* load_config(cli_path), given what the --config path, the script directory
\* and the working directory hold
load_config(cli, here, cwd) ==
    LET c1 == try_load_json(cli)
        c2 == try_load_json(here)
        c3 == try_load_json(cwd)
    IN  IF cli.kind # "none" /\ Truthy(c1) THEN merge_defaults(c1.value)
        ELSE IF Truthy(c2) THEN merge_defaults(c2.value)
        ELSE IF Truthy(c3) THEN merge_defaults(c3.value)
        ELSE merge_defaults(<<>>)

InitConfig ==
    /\ NotRunning
    /\ fin \in [cli : 0..Len(ConfigFiles), here : 1..Len(ConfigFiles),
                cwd : 1..Len(ConfigFiles)]
    /\ fout = NoOut

LoadConfig ==
    /\ fout.fn = "none"
    /\ fout' = [fn |-> "load_config",
                r |-> load_config(ConfigFile(fin.cli), ConfigFile(fin.here),
                                  ConfigFile(fin.cwd))]
    /\ UNCHANGED <<cfg, args, clock, pc, trigger, loc, last_slot_key_prompted,
                   was_idle, state, items, ev, watch, wb, wr, idle_seen, fin>>

NextConfig == LoadConfig

SpecConfig == InitConfig /\ [][NextConfig]_vars

(***************************************************************************)
(* the UTC conversion of create_appointment and _preview_log.  Instants    *)
(* are seconds of UTC; wall-clock values are seconds of local time.  The   *)
(* host's zone moves its clocks forward once: wall clock 02:00 of day 0    *)
(* becomes 03:00.                                                          *)
(***************************************************************************)
\* seconds east of UTC before and after the transition, and its UTC instant
StdOffset == 3600
DstOffset == 7200
Transition == 3600

\* the zone's rule: the offset in force at the UTC instant u
ZoneOffset(u) == IF u < Transition THEN StdOffset ELSE DstOffset

\* _local_tz(), called at the UTC instant u: datetime.now().astimezone().tzinfo
\* is a fixed-offset zone holding the offset in force at u
local_tz(u) == ZoneOffset(u)

\* _to_utc_from_local_wall(dt), called at the UTC instant u
to_utc_from_local_wall(dt, u) == dt - local_tz(u)

\* _local_and_utc(dt), called at the UTC instant u: the aware local value keeps
\* the wall clock of dt
local_and_utc(dt, u) == <<dt, dt - local_tz(u)>>

\* appt.StartUTC and appt.EndUTC as create_appointment assigns them, the first
\* conversion running at the UTC instant u1 and the second at u2
AppointmentTimes(start, end, u1, u2) ==
    [StartUTC |-> to_utc_from_local_wall(start, u1),
     EndUTC |-> to_utc_from_local_wall(end, u2)]

\* wall-clock slot starts of day 0, on both sides of the transition
UtcSlotStarts ==
    {At(0, 0, 30, 0), At(0, 1, 0, 0), At(0, 1, 30, 0), At(0, 3, 0, 0),
     At(0, 9, 0, 0), At(0, 16, 30, 0)}

\* UTC instants of day 0 (local date) at which the conversion starts
UtcCallInstants ==
    {0, Transition - 1, Transition, Transition + 1, At(0, 8, 0, 0),
     At(0, 15, 0, 0)}

\* seconds between the two conversions of one create_appointment call
UtcLags == {0, 1}

InitUtc ==
    /\ NotRunning
    /\ fin \in [start : UtcSlotStarts, slot_minutes : {30, 60},
                at : UtcCallInstants, lag : UtcLags]
    /\ fout = NoOut

\* create_appointment converts the two boundaries of the slot
ConvertForCreate ==
    /\ fout.fn = "none"
    /\ fout' = [fn |-> "create_appointment",
                r |-> AppointmentTimes(fin.start, fin.start + fin.slot_minutes * 60,
                                       fin.at, fin.at + fin.lag)]
    /\ UNCHANGED <<cfg, args, clock, pc, trigger, loc, last_slot_key_prompted,
                   was_idle, state, items, ev, watch, wb, wr, idle_seen, fin>>

\* _preview_log converts the two boundaries of the slot
ConvertForPreview ==
    /\ fout.fn = "none"
    /\ fout' = [fn |-> "_preview_log",
                r |-> [StartUTC |-> local_and_utc(fin.start, fin.at)[2],
                       EndUTC |-> local_and_utc(fin.start + fin.slot_minutes * 60,
                                                fin.at + fin.lag)[2]]]
    /\ UNCHANGED <<cfg, args, clock, pc, trigger, loc, last_slot_key_prompted,
                   was_idle, state, items, ev, watch, wb, wr, idle_seen, fin>>

NextUtc == ConvertForCreate \/ ConvertForPreview

SpecUtc == InitUtc /\ [][NextUtc]_vars

(***************************************************************************)
(* main() from its first statement: the one-shot modes --force and         *)
(* --force-bypass, and the entry into the scheduler loop                   *)
(***************************************************************************)
\* values of --at
AtSamples == {NoAt, <<9, 10>>, <<8, 40>>}

\* command lines with --force or --force-bypass
OneShotArgs ==
    {a \in [force : BOOLEAN, force_bypass : BOOLEAN, at : AtSamples,
            exact_now : BOOLEAN, preview_only : BOOLEAN] :
        a.force \/ a.force_bypass}

\* the instants at which a one-shot run is started
OneShotInstants ==
    {At(0, 8, 59, 59), At(0, 9, 10, 30), At(0, 9, 20, 0), At(0, 16, 59, 59),
     At(0, 17, 0, 0)}

\* the default work window and one that starts and ends inside a slot
MainConfigs == {Configured, Window(Configured, <<9, 15>>, <<16, 45>>)}

\* main() before the test of args.force: load_config, load_state
MainStart ==
    /\ pc = "Start"
    /\ trigger = None
    /\ loc = NoLoc
    /\ last_slot_key_prompted = NoKey
    /\ was_idle = FALSE
    /\ state = NoState
    /\ items = <<>>
    /\ ev = NoEv
    /\ watch = NoKey
    /\ wb = 0
    /\ wr = 0
    /\ idle_seen = "start"
    /\ fin = None
    /\ fout = NoOut

\* a config.json with two categories, one of them without an Outlook label,
\* and with remember_last switched off
TwoCategories ==
    <<[name |-> Dev, outlook_category |-> BlueCategory, jira_timecodes |-> <<TC>>],
      [name |-> Ops, outlook_category |-> None, jira_timecodes |-> <<TC, Ops>>]>>

Forgetful ==
    merge_defaults([categories |-> TwoCategories,
                    ui |-> [remember_last |-> FALSE, snooze_minutes |-> 10]])

\* the configurations of the one-shot runs
OneShotConfigs == MainConfigs \cup {Forgetful}

InitOneShot ==
    /\ cfg \in OneShotConfigs
    /\ args \in OneShotArgs
    /\ clock \in OneShotInstants
    /\ MainStart

\* the one-shot branch of main up to the call of prompt_once
OneShot ==
    /\ pc = "Start"
    /\ args.force \/ args.force_bypass
    /\ LET slot == compute_slot_for_time(cfg, args.at, args.exact_now, clock)
       IN  loc' = [now |-> clock, s |-> slot[1], e |-> slot[2], slot_key |-> NoKey]
    /\ trigger' = "oneshot"
    /\ pc' = "Admit"
    /\ ev' = [op |-> "OneShot", out |-> "attempt", idle |-> 0]
    /\ UNCHANGED <<cfg, args, clock, last_slot_key_prompted, was_idle, state, items,
                   watch, wb, wr, idle_seen, fin, fout>>

NextOneShot == OneShot \/ Admit \/ Modal \/ Wake

SpecOneShot == InitOneShot /\ [][NextOneShot]_vars

\* main() started in either mode
InitMain ==
    /\ cfg \in MainConfigs
    /\ \/ args \in OneShotArgs /\ clock \in OneShotInstants
       \/ args = LoopArgs /\ \E t0 \in {t \in Instants : DayOf(t) = 0} : clock = t0 - 1
    /\ MainStart

\* without --force and --force-bypass main sets up the locals of the loop
EnterLoop ==
    /\ pc = "Start"
    /\ ~(args.force \/ args.force_bypass)
    /\ pc' = "Waiting"
    /\ last_slot_key_prompted' = NoKey
    /\ was_idle' = FALSE
    /\ ev' = [op |-> "EnterLoop", out |-> None, idle |-> 0]
    /\ UNCHANGED <<cfg, args, clock, trigger, loc, state, items, watch, wb, wr,
                   idle_seen, fin, fout>>

NextMain == OneShot \/ EnterLoop \/ Poll \/ IdleCheck \/ Admit \/ Modal \/ Wake

SpecMain == InitMain /\ [][NextMain]_vars

(***************************************************************************)
(* Properties of the scheduler loop                                        *)
(***************************************************************************)
WatchStart == KeyTime(watch)
WatchEnd == KeyTime(watch) + cfg.work_window.slot_minutes * 60

\* the hours of the work window, read off the configuration
TimeOfDay(t) == t % 86400
InsideHours(c, t) ==
    /\ c.work_window.start[1] * 3600 + c.work_window.start[2] * 60 <= TimeOfDay(t)
    /\ TimeOfDay(t) < c.work_window.end[1] * 3600 + c.work_window.end[2] * 60

\* the step is the idle step of a tick and it signals a resume
ResumeSignalled == pc = "Idle" /\ ev'.op = "IdleCheck" /\ was_idle /\ ev'.idle <= 60

\* C1: in loop mode prompt_once is called at most once for any slot key, the
\* calls of the boundary trigger and of the resume trigger counted together,
\* whether the attempt is admitted or rejected.
C1_AtMostOneAttemptPerSlot == wb + wr <= 1

\* C1 witness: an attempt was made for the watched slot and a later resume
\* event in that same slot was not given a second one.
C1_Witness ==
    /\ wb + wr = 1
    /\ ev.op = "IdleCheck" /\ ev.out = "resume_dedup"
    /\ loc.slot_key = watch

\* C2 as stated: a slot inside the work window, once over, has received exactly
\* one attempt from the boundary trigger.
C2_ExactlyOneBoundaryAttempt ==
    (pc = "Waiting" /\ clock >= WatchEnd /\ InsideHours(cfg, WatchStart)) => wb = 1

\* C2 amended: a slot receives at most one attempt from the boundary trigger and
\* at most one from the resume trigger; either is made only while no attempt has
\* been made for the slot, so after a resume attempt the boundary trigger makes
\* none; and a tick polled inside the first five seconds of the slot leaves the
\* slot with exactly one attempt.
C2_BoundaryOrResumeOnce ==
    [][/\ (wb' # wb \/ wr' # wr) => (wb = 0 /\ wr = 0 /\ wb' + wr' = 1)
       /\ (/\ ev'.op = "Poll" /\ pc = "Waiting"
           /\ WatchStart <= clock' /\ clock' < WatchStart + 5
           /\ InsideHours(cfg, clock'))
          => wb' + wr' = 1]_vars

\* C2 witness: the watched slot is over, the resume trigger made its one attempt
\* and the boundary trigger none.
C2_Witness == pc = "Waiting" /\ clock >= WatchEnd /\ wr = 1 /\ wb = 0

\* C3: a boundary-trigger attempt is made only at a tick whose now lies in the
\* first 5 seconds after the start of the current slot.
C3_BoundaryOnlyAtSlotStart ==
    (ev.op = "Poll" /\ ev.out = "boundary")
        => (loc.s <= loc.now /\ loc.now < loc.s + 5)

\* C4: at a tick where the debouncer signals a resume, an attempt for the slot is
\* made iff slot_key differs from last_slot_key_prompted; if made,
\* last_slot_key_prompted becomes slot_key; if not, the tick ends with no calendar
\* query and no modal and last_slot_key_prompted unchanged; was_idle is cleared in
\* both cases.
C4_ResumeAttemptIffNewSlot ==
    [][ResumeSignalled =>
        /\ ~was_idle'
        /\ IF loc.slot_key # last_slot_key_prompted
           THEN /\ pc' = "Admit" /\ trigger' = "resume"
                /\ last_slot_key_prompted' = loc.slot_key
           ELSE /\ pc' = "Waiting"
                /\ last_slot_key_prompted' = last_slot_key_prompted]_vars

\* C4 witness: a resume was signalled in a slot already prompted.
C4_Witness ==
    /\ ev.op = "IdleCheck" /\ ev.out = "resume_dedup" /\ ev.idle <= 60
    /\ pc = "Waiting" /\ ~was_idle
    /\ loc.slot_key = last_slot_key_prompted

\* C5: a resume is signalled only at a tick that samples idle_seconds <= 60 while
\* was_idle is true, and between two resume signals some tick sampled
\* idle_seconds > 60.
C5_OneResumePerTransition ==
    [][(pc = "Idle" /\ ev'.op = "IdleCheck"
        /\ ev'.out \in {"resume_prompt", "resume_dedup"})
       => (was_idle /\ ev'.idle <= 60 /\ idle_seen = "idle")]_vars

\* C5 witness: after a resume event a further active tick signalled no resume.
C5_Witness ==
    /\ idle_seen = "resumed"
    /\ ev.op = "IdleCheck" /\ ev.out = "active"

\* C6: a tick that samples idle_seconds > 60 only sets was_idle (no attempt,
\* last_slot_key_prompted unchanged); a sample of exactly 60 is active, so with
\* was_idle true it is a resume event.
C6_IdleStepFrame ==
    [][(pc = "Idle" /\ ev'.op = "IdleCheck") =>
        /\ ev'.idle > 60 =>
             /\ was_idle' /\ pc' = "Waiting"
             /\ UNCHANGED <<last_slot_key_prompted, trigger, state, items, loc,
                            clock, cfg, wb, wr>>
        /\ (ev'.idle = 60 /\ was_idle) =>
             /\ ~was_idle'
             /\ ev'.out \in {"resume_prompt", "resume_dedup"}
             /\ (loc.slot_key # last_slot_key_prompted => pc' = "Admit")]_vars

\* C6 witness: a sample of exactly 60 s with was_idle set started a resume attempt.
C6_Witness ==
    ev.op = "IdleCheck" /\ ev.idle = 60 /\ ev.out = "resume_prompt" /\ pc = "Admit"

\* C7: a tick whose now is outside the work window does nothing: no idle sample,
\* no calendar query, no modal, and was_idle and last_slot_key_prompted keep
\* their values.
C7_OutsideWindowTickIsNoOp ==
    [][(pc = "Waiting" /\ ev'.op = "Poll" /\ ~InsideHours(cfg, clock')) =>
        /\ pc' = "Waiting"
        /\ UNCHANGED <<was_idle, last_slot_key_prompted, trigger, loc, state, items,
                       wb, wr, idle_seen>>]_vars

\* C7 witness: was_idle, set before the window closed, is still set at a tick of
\* the next day made before the window opens.
C7_Witness ==
    /\ ev.op = "Poll" /\ ev.out = "outside" /\ pc = "Waiting"
    /\ was_idle
    /\ DayOf(clock) > 0
    /\ TimeOfDay(clock) < cfg.work_window.start[1] * 3600

(***************************************************************************)
(* Properties of the slot clock and the work window                        *)
(***************************************************************************)
\* C11: for every now, current_slot with slot_minutes = 30 returns a slot whose
\* start has minute 0 or 30 and zero seconds, whose width is 30 minutes and which
\* contains now; for every slot_minutes, end - start is slot_minutes.
C11_SlotOfNow ==
    fout.fn = "current_slot" =>
        LET s == fout.r[1]
            e == fout.r[2]
        IN  /\ e - s = fin.slot_minutes * 60
            /\ fin.slot_minutes = 30 =>
                  /\ s % 3600 \in {0, 1800}
                  /\ e - s = 1800
                  /\ s <= fin.now /\ fin.now < e

\* C11 witness: the last second of a day lies in the half-hour slot that ends at
\* the next midnight.
C11_Witness ==
    /\ fout.fn = "current_slot" /\ fin.slot_minutes = 30
    /\ fin.now % 86400 = 86399
    /\ fout.r[1] % 3600 = 1800
    /\ fout.r[2] = fin.now + 1

\* C12: within_work_window(t) is true exactly when start <= t < end on t's own
\* day: it depends only on t's time of day, the end instant is outside, and the
\* start instant of a window that ends after it starts is inside.
C12_WindowIsHalfOpen ==
    fout.fn = "within_work_window" =>
        LET ws == fin.c.work_window.start[1] * 3600 + fin.c.work_window.start[2] * 60
            we == fin.c.work_window.end[1] * 3600 + fin.c.work_window.end[2] * 60
            tod == fin.now % 86400
        IN  /\ fout.r = (ws <= tod /\ tod < we)
            /\ tod = we => ~fout.r
            /\ (tod = ws /\ ws < we) => fout.r

\* C12 witness: the start instant of the window is inside, on the second day.
C12_Witness ==
    /\ fout.fn = "within_work_window" /\ fout.r
    /\ fin.now = At(1, fin.c.work_window.start[1], fin.c.work_window.start[2], 0)
    /\ fin.c.work_window.start = <<9, 15>>

(***************************************************************************)
(* Properties of the admission rule                                        *)
(***************************************************************************)
\* the string without its leading and trailing spaces
Trimmed(s) ==
    LET inked == {i \in 1..Len(s) : s[i] # " "}
    IN  IF inked = {} THEN <<>>
        ELSE SubSeq(s, Min(inked), CHOOSE i \in inked : \A j \in inked : j <= i)

SameIgnoringCase(a, b) ==
    Len(a) = Len(b) /\ \A i \in 1..Len(a) : Lower(a[i]) = Lower(b[i])

OccursIgnoringCase(a, b) ==
    \E k \in 0..(Len(b) - Len(a)) : \A i \in 1..Len(a) : Lower(a[i]) = Lower(b[k + i])

\* C8: should_prompt is true exactly when the list of events of the slot is empty
\* or holds exactly one event whose subject matches the focus title; it is false
\* for any other single event and for every list of two or more events.
C8_ShouldPromptRule ==
    (fout.fn = "should_prompt" /\ ~fout.r.raised) =>
        LET evs == fout.r.evs
            matches(e) == is_focus_title(e.Subject, fin.c.prompt_rules.focus_title,
                                         fin.c.prompt_rules.focus_match)
        IN  /\ fout.r.value = (Len(evs) = 0 \/ (Len(evs) = 1 /\ matches(evs[1])))
            /\ Len(evs) >= 2 => ~fout.r.value

\* C8 witness: two events that both match the focus title, and no prompt.
C8_Witness ==
    /\ fout.fn = "should_prompt" /\ ~fout.r.raised
    /\ Len(fout.r.evs) = 2
    /\ \A i \in 1..2 : SameIgnoringCase(fout.r.evs[i].Subject, FocusSprint)
    /\ fin.c.prompt_rules.focus_match = "equals_ci"
    /\ ~fout.r.value

\* C9 as stated: the subject itself is compared with focus_title under each of the
\* three modes.
C9_TitleMatchOnRawSubject ==
    fout.fn = "_is_focus_title" =>
        /\ fin.mode = "equals_ci" =>
             fout.r = SameIgnoringCase(fin.subject, fin.focus_title)
        /\ fin.mode = "contains_ci" =>
             fout.r = OccursIgnoringCase(fin.focus_title, fin.subject)
        /\ fin.mode = "equals_exact" => fout.r = (fin.subject = fin.focus_title)

\* C9 amended: the subject is compared after its surrounding whitespace is
\* stripped, focus_title as configured; equals_ci is equality ignoring case,
\* contains_ci is occurrence ignoring case, and every other mode string is
\* case-sensitive equality.
C9_TitleMatchOnStrippedSubject ==
    fout.fn = "_is_focus_title" =>
        fout.r = IF fin.mode = "equals_ci"
                 THEN SameIgnoringCase(Trimmed(fin.subject), fin.focus_title)
                 ELSE IF fin.mode = "contains_ci"
                 THEN OccursIgnoringCase(fin.focus_title, Trimmed(fin.subject))
                 ELSE Trimmed(fin.subject) = fin.focus_title

\* C9 witness: a subject with surrounding whitespace matches under the exact mode.
C9_Witness ==
    /\ fout.fn = "_is_focus_title" /\ fout.r
    /\ fin.mode = "equals_exact"
    /\ fin.subject # fin.focus_title
    /\ fin.focus_title # <<>>

\* the events the calendar holds for the slot, in calendar order
Overlapping(its, only_readable) ==
    LET sel == SelectSeq(its, LAMBDA itm :
                   /\ itm.Start < TestEnd /\ itm.End > TestStart
                   /\ ~itm.AllDayEvent
                   /\ (only_readable => itm.readable))
    IN  [i \in 1..Len(sel) |->
            [Subject |-> Trimmed(sel[i].Subject), Start |-> sel[i].Start,
             End |-> sel[i].End]]

\* C10 as stated: the list used for admission holds exactly the calendar events
\* with start < slot.end and end > slot.start that are not all-day.
C10_ExactlyTheOverlappingEvents ==
    (fout.fn = "events_in_range" /\ ~fout.r.raised) =>
        fout.r.out = Overlapping(fin.items, FALSE)

\* C10 amended: the list holds exactly the events with start < slot.end and
\* end > slot.start that are not all-day and whose attributes can be read, on the
\* primary query and on the fallback query alike.
C10_ExactlyTheReadableOverlappingEvents ==
    (fout.fn = "events_in_range" /\ ~fout.r.raised) =>
        fout.r.out = Overlapping(fin.items, TRUE)

\* C10 witness: the fallback query was used, the calendar holds an all-day event
\* and an event that ends exactly at the slot start, and the list is empty.
C10_Witness ==
    /\ fout.fn = "events_in_range" /\ ~fout.r.raised
    /\ fin.faults.primary
    /\ Len(fin.items) = 2
    /\ fin.items[1].AllDayEvent /\ fin.items[1].readable
    /\ fin.items[2].End = TestStart /\ fin.items[2].readable
    /\ fout.r.out = <<>>

(***************************************************************************)
(* Properties of prompt_once, of the one-shot modes and of the snooze      *)
(***************************************************************************)
\* the events of the slot [s, e) that count for admission
SlotEvents(cal, s, e) ==
    SelectSeq(cal, LAMBDA itm : itm.Start < e /\ itm.End > s /\ ~itm.AllDayEvent)

MatchesFocus(c, itm) ==
    SameIgnoringCase(Trimmed(itm.Subject), c.prompt_rules.focus_title)

\* the slot is empty or holds exactly one event, the focus placeholder
Admissible(c, cal, s, e) ==
    LET evs == SlotEvents(cal, s, e)
    IN  Len(evs) = 0 \/ (Len(evs) = 1 /\ MatchesFocus(c, evs[1]))

\* the positions of the calls of fn in a call log
CallsOf(calls, fn) == {i \in 1..Len(calls) : calls[i].fn = fn}

\* C13: in one-shot mode one prompt attempt is made for the computed slot and the
\* process ends without entering the poll loop; under --force the modal is shown
\* iff the slot start is inside the work window and should_prompt admits the
\* slot; under --force-bypass it is shown unconditionally, with no work-window
\* check and no admission query.
C13_OneShotAttemptsOnceAndExits ==
    [][/\ pc' \notin {"Waiting", "Idle", "Start"}
       /\ (ev'.op = "OneShot") <=> (pc = "Start")
       /\ pc = "Start" =>
            /\ pc' = "Admit"
            /\ <<loc'.s, loc'.e>> =
                   compute_slot_for_time(cfg, args.at, args.exact_now, clock)
       /\ pc \in {"Prompting", "Snoozed"} => pc' \in {"Snoozed", "Done", "Crashed"}
       /\ pc = "Admit" =>
            /\ pc' \in {"Prompting", "Done", "Crashed"}
            /\ IF args.force_bypass
               THEN pc' = "Prompting" /\ ~ev'.queried
               ELSE /\ ev'.queried = InsideHours(cfg, loc.s)
                    /\ (pc' = "Prompting") <=>
                         /\ InsideHours(cfg, loc.s)
                         /\ ev'.out # "raised"
                         /\ Admissible(cfg, ev'.cal, loc.s, loc.e)]_vars

\* C13 witness: --force-bypass showed the modal for a slot that starts outside the
\* work window and holds two events, and the process ended after the Save.
C13_Witness ==
    /\ pc = "Done" /\ args.force_bypass
    /\ ev.op = "Modal" /\ ev.out = "save"
    /\ ~InsideHours(cfg, loc.s)
    /\ Cardinality(CallsOf(ev.calls, "Delete")) = 2

\* C14: without bypass the modal is never open outside active hours: not for a
\* boundary or resume trigger of a tick whose now is outside the work window, and
\* in loop and --force modes not for a slot whose start is outside the work window.
C14_NoModalOutsideHours ==
    (pc = "Prompting" /\ ~args.force_bypass) =>
        /\ InsideHours(cfg, loc.s)
        /\ trigger \in {"boundary", "resume"} => InsideHours(cfg, loc.now)

\* C14 witness: in loop mode an attempt for an empty slot that starts before the
\* work window ended without a modal.
C14_Witness ==
    /\ trigger = "boundary" /\ pc = "Idle"
    /\ ev.op = "Admit" /\ ev.out = "outside" /\ ev.cal = <<>>
    /\ InsideHours(cfg, loc.now) /\ ~InsideHours(cfg, loc.s)

\* C15: in loop mode every attempt made at a tick whose now is inside the work
\* window and whose slot should_prompt admits opens the modal, also for a slot
\* whose start precedes the start of the work window.
C15_AdmittedAttemptOpensModal ==
    [][(/\ pc = "Admit" /\ trigger \in {"boundary", "resume"}
        /\ InsideHours(cfg, loc.now)
        /\ ev'.out # "raised"
        /\ Admissible(cfg, ev'.cal, loc.s, loc.e))
       => pc' = "Prompting"]_vars

\* C16: after a Snooze result the loop is blocked for snooze_minutes: the only
\* step is the return of the sleep, snooze_minutes * 60 seconds later, with no
\* idle sample, no query, no modal and was_idle and last_slot_key_prompted
\* unchanged; then the interrupted tick goes on (its idle step after a boundary
\* attempt, its end after a resume attempt).
C16_SnoozeSuspendsLoop ==
    [][/\ (pc = "Prompting" /\ ev'.op = "Modal" /\ ev'.out = "snooze") =>
            /\ pc' = "Snoozed"
            /\ CallsOf(ev'.calls, "sleep") = {1} /\ Len(ev'.calls) = 1
            /\ UNCHANGED <<was_idle, last_slot_key_prompted, state>>
       /\ pc = "Snoozed" =>
            /\ ev'.op = "Wake"
            /\ clock' = clock + cfg.ui.snooze_minutes * 60
            /\ pc' = IF trigger = "boundary" THEN "Idle" ELSE "Waiting"
            /\ UNCHANGED <<was_idle, last_slot_key_prompted, state, items, loc,
                           trigger, idle_seen, wb, wr>>]_vars

\* C16 witness: a snooze started by a resume attempt ended in the next slot and
\* the loop is waiting for its next tick.
C16_Witness ==
    /\ ev.op = "Wake" /\ pc = "Waiting" /\ trigger = "resume"
    /\ clock >= loc.e
    /\ ~was_idle

\* C17: one Save deletes at most one occurrence, and only an occurrence of the
\* slot whose subject matches the focus title, in every mode.
C17_SaveDeletesAtMostOne ==
    (ev.op = "Modal" /\ ev.out = "save") =>
        /\ Cardinality(CallsOf(ev.calls, "Delete")) <= 1
        /\ \A i \in CallsOf(ev.calls, "Delete") :
             /\ ev.calls[i].item.Start < loc.e /\ ev.calls[i].item.End > loc.s
             /\ MatchesFocus(cfg, ev.calls[i].item)

\* C18: on Save, when a focus placeholder exists in the slot (an occurrence the
\* re-query returns and can read) its deletion is attempted before the create
\* call; no create call precedes a delete call.
C18_DeleteBeforeCreate ==
    [][(pc = "Prompting" /\ ev'.op = "Modal" /\ ev'.out = "save") =>
        LET calls == ev'.calls
            D == CallsOf(calls, "Delete")
            K == CallsOf(calls, "create_appointment")
            placeholders == {i \in 1..Len(items) :
                               /\ items[i].Start < loc.e /\ items[i].End > loc.s
                               /\ ~items[i].AllDayEvent /\ items[i].readable
                               /\ MatchesFocus(cfg, items[i])}
        IN  /\ \A d \in D : \A k \in K : d < k
            /\ \A k \in K : \A i \in placeholders :
                 \E d \in D : d < k /\ calls[d].item = items[i]]_vars

\* C18 witness: a Save deleted the placeholder of the slot and then created the
\* entry.
C18_Witness ==
    /\ ev.op = "Modal" /\ ev.out = "save"
    /\ \E d \in CallsOf(ev.calls, "Delete") :
         /\ ~ev.calls[d].raised
         /\ d + 1 \in CallsOf(ev.calls, "create_appointment")

\* C19: a Delete that raises during a Save is not propagated: outside preview
\* mode the entry is still created, and the scheduler goes on with its tick.
C19_DeleteFailureIsNotFatal ==
    [][(/\ pc = "Prompting" /\ ev'.op = "Modal"
        /\ \E d \in CallsOf(ev'.calls, "Delete") : ev'.calls[d].raised)
       => /\ \E k \in CallsOf(ev'.calls, "create_appointment") :
               \A d \in CallsOf(ev'.calls, "Delete") : d < k
          /\ pc' = IF trigger = "boundary" THEN "Idle" ELSE "Waiting"]_vars

\* C19 witness: the Delete of the placeholder raised, the entry was created and
\* the loop is at the idle step of the tick.
C19_Witness ==
    /\ ev.op = "Modal" /\ pc = "Idle"
    /\ \E d \in CallsOf(ev.calls, "Delete") : ev.calls[d].raised
    /\ \E k \in CallsOf(ev.calls, "create_appointment") : ~ev.calls[k].raised

\* C20: in loop mode no failure of a calendar call during a prompt attempt ends
\* the scheduler loop.
C20_NoCalendarFailureEndsLoop == pc # "Crashed"

\* C22: under --preview-only a Save writes nothing to the calendar: no entry is
\* created and no occurrence of the slot, a matching focus placeholder included,
\* is deleted.
C22_PreviewSaveWritesNothing ==
    (args.preview_only /\ ev.op = "Modal" /\ ev.out = "save") =>
        /\ CallsOf(ev.calls, "create_appointment") = {}
        /\ CallsOf(ev.calls, "Delete") = {}

\* C29: while the loop is snoozed and when the sleep returns,
\* last_slot_key_prompted is the key of the snoozed slot; an attempt, of either
\* trigger, is only ever started for a slot other than the one prompted last and
\* later than it, so after a snooze the next modal is for a later slot.
C29_SnoozedSlotNotPromptedAgain ==
    [][/\ pc = "Snoozed" =>
            /\ last_slot_key_prompted = loc.slot_key
            /\ last_slot_key_prompted' = loc.slot_key
            /\ pc' # "Admit" /\ pc' # "Prompting"
       /\ (pc' = "Admit" /\ pc # "Admit") =>
            /\ loc'.slot_key # last_slot_key_prompted
            /\ last_slot_key_prompted # NoKey =>
                 <<loc'.slot_key[1], loc'.slot_key[2], loc'.slot_key[3]>> \in
                   {k \in (0..MaxDay + 1) \X (0..23) \X (0..59) :
                      \/ k[1] > last_slot_key_prompted[1]
                      \/ /\ k[1] = last_slot_key_prompted[1]
                         /\ k[2] * 60 + k[3] >
                              last_slot_key_prompted[2] * 60 + last_slot_key_prompted[3]}
       /\ pc' = "Prompting" => loc'.slot_key = last_slot_key_prompted']_vars

\* C29 witness: the sleep of a snooze returned while the snoozed slot is still
\* the current one, with a resume pending.
C29_Witness ==
    /\ ev.op = "Wake" /\ pc = "Idle"
    /\ clock < loc.e /\ InsideHours(cfg, clock)
    /\ was_idle
    /\ last_slot_key_prompted = loc.slot_key

\* C30: a tick makes at most one prompt attempt: when the boundary trigger made
\* an attempt, the idle step of the same tick starts none, however long the
\* modal or the snooze blocked; a resume signalled at that step only clears
\* was_idle.
C30_OneAttemptPerTick ==
    [][(pc = "Idle" /\ ev.op \in {"Admit", "Modal", "Wake"}) =>
        /\ trigger = "boundary"
        /\ ev'.op = "IdleCheck" /\ pc' = "Waiting"
        /\ UNCHANGED <<last_slot_key_prompted, wr, wb, items>>
        /\ (was_idle /\ ev'.idle <= IDLE_THRESHOLD_SEC) =>
              ~was_idle' /\ ev'.out = "resume_dedup"]_vars

\* C30 witness: the modal of a boundary attempt was answered in a later slot with
\* a resume pending, and the idle step cleared was_idle without an attempt.
C30_Witness ==
    /\ ev.op = "IdleCheck" /\ ev.out = "resume_dedup" /\ pc = "Waiting"
    /\ trigger = "boundary"
    /\ clock >= loc.e /\ InsideHours(cfg, clock)
    /\ ~was_idle

\* the integer-division rule (minute // slot_minutes) * slot_minutes applied to
\* the hour and minute of n
DivisionSlot(n, slot_minutes) ==
    LET minute == (((n % 3600) \div 60) \div slot_minutes) * slot_minutes
        start == n - (n % 3600) + minute * 60
    IN  <<start, start + slot_minutes * 60>>

\* C28: for slot_minutes = 30 and every time of day, the special case of
\* current_slot gives the slot of the integer-division rule, and so does the
\* --at path of compute_slot_for_time for the same hour and minute.
C28_HalfHourCaseIsDivision ==
    (fin.slot_minutes = 30 /\ fout.fn \in {"current_slot", "compute_slot_for_time"}) =>
        fout.r = DivisionSlot(fin.now, 30)

\* C28 witness: current_slot answered for 30-minute slots at minute 30 exactly.
C28_Witness ==
    /\ fin.slot_minutes = 30 /\ fout.fn = "current_slot"
    /\ (fin.now % 3600) \div 60 = 30
    /\ fout.r[1] % 3600 = 1800

\* the wall clock that the zone's rules show at the UTC instant u
WallClockAt(u) == u + (IF u < Transition THEN StdOffset ELSE DstOffset)

\* the UTC instants at which the zone shows the wall-clock value w
InstantsOf(w) == {u \in {w - StdOffset, w - DstOffset} : WallClockAt(u) = w}

\* C23: the start_utc and end_utc written on Save are slot_minutes apart, also
\* when a daylight-saving transition is pending or happens during the commit.
C23_UtcDurationIsSlotLength ==
    (fout.fn = "create_appointment") =>
        fout.r.EndUTC - fout.r.StartUTC = fin.slot_minutes * 60

\* C24: each boundary of the slot is converted with the offset in force at the
\* boundary's own instant, so each UTC value shows the original wall clock
\* again under the zone's rules, also for a slot on the other side of a
\* transition from the instant of the conversion.
C24_UtcRoundTrips ==
    (/\ fout.fn = "create_appointment"
     /\ InstantsOf(fin.start) # {}
     /\ InstantsOf(fin.start + fin.slot_minutes * 60) # {})
    => /\ fout.r.StartUTC \in InstantsOf(fin.start)
       /\ fout.r.EndUTC \in InstantsOf(fin.start + fin.slot_minutes * 60)
       /\ WallClockAt(fout.r.StartUTC) = fin.start
       /\ WallClockAt(fout.r.EndUTC) = fin.start + fin.slot_minutes * 60

\* the candidates of a load, in the order --config, script directory, working
\* directory, and the override in effect: the first non-empty object among them
Candidates == <<ConfigFile(fin.cli), ConfigFile(fin.here), ConfigFile(fin.cwd)>>
Parsed ==
    {i \in 1..3 : Candidates[i].kind = "json" /\ DOMAIN Candidates[i].value # {}}
Override ==
    IF Parsed = {} THEN <<>>
    ELSE Candidates[CHOOSE i \in Parsed : \A j \in Parsed : i <= j].value

\* C25: the loaded configuration holds every key of every default section
\* (work_window, prompt_rules, ui), with the override's value where the override
\* gives one and the default otherwise, also when the override gives a section
\* with some of its keys; when no candidate holds a usable object the result is
\* exactly the defaults.
C25_EveryDefaultKeyLoaded ==
    (fout.fn = "load_config") =>
        /\ Parsed = {} => fout.r = DEFAULTS
        /\ \A k \in {"work_window", "prompt_rules", "ui"} :
             \A j \in DOMAIN DEFAULTS[k] :
                /\ j \in DOMAIN fout.r[k]
                /\ fout.r[k][j] = IF k \in DOMAIN Override /\ j \in DOMAIN Override[k]
                                  THEN Override[k][j]
                                  ELSE DEFAULTS[k][j]

\* C26: the modal returns Save only from a press of Save whose trimmed text and
\* trimmed timecode are both non-empty; a press of Save that fails a validation
\* leaves the dialog open with no result set; closing the window or pressing
\* Escape returns Skip; prompt_once creates an entry only for a Save result with
\* non-empty trimmed text and timecode.
C26_EntryOnlyFromValidSave ==
    [][/\ (fout'.fn = "run_modal_tk" /\ fout'.result.action = "save") =>
            /\ ~fout'.open
            /\ Trimmed(fout'.result.text) # <<>>
            /\ Trimmed(fout'.result.timecode) # <<>>
            /\ fout.fn = "run_modal_tk" /\ fout.open
            /\ fout'.last = "save"
            /\ fout'.result.text = Trimmed(fout.txt)
            /\ fout'.result.timecode = Trimmed(fout.code)
       /\ (/\ fout.fn = "run_modal_tk" /\ fout.open
           /\ fout'.last \in {"save", "missing_text", "missing_timecode"}
           /\ (Trimmed(fout.txt) = <<>> \/ Trimmed(fout.code) = <<>>))
          => /\ fout'.open
             /\ fout'.result = fout.result /\ fout'.result.action = "skip"
       /\ (fout.fn = "run_modal_tk" /\ fout.open /\ fout'.last \in {"closed", "escape"})
          => ~fout'.open /\ fout'.result.action = "skip"
       /\ (fout'.fn = "prompt_once") =>
            /\ fout'.res = fout.result
            /\ CallsOf(fout'.calls, "create_appointment") # {} <=>
                 /\ fout.result.action = "save"
                 /\ Trimmed(fout.result.text) # <<>>
                 /\ Trimmed(fout.result.timecode) # <<>>]_vars

\* C26 witness: Save was pressed with a text but with a blank timecode selected,
\* and the dialog is still open.
C26_Witness ==
    /\ fout.fn = "run_modal_tk" /\ fout.open
    /\ fout.last = "missing_timecode"
    /\ Trimmed(fout.txt) # <<>> /\ fout.code # <<>>

\* the Outlook label the configuration gives the category called name
LabelOf(c, name) ==
    LET named == {i \in 1..Len(c.categories) : c.categories[i].name = name}
    IN  IF named = {} THEN None ELSE c.categories[CHOOSE i \in named : TRUE].outlook_category

C21_StateChangesOnlyOnSave ==
    [][IF ev'.op = "Modal" /\ ev'.out = "save" /\ cfg.ui.remember_last
       THEN /\ state' = [last_category |-> ev'.res.category,
                         last_timecode |-> ev'.res.timecode]
            /\ CallsOf(ev'.calls, "save_state") # {}
       ELSE /\ state' = state
            /\ ev'.op = "Modal" => CallsOf(ev'.calls, "save_state") = {}]_vars

\* C31: for every configured slot_minutes the slots current_slot computes for two
\* instants are the same interval or disjoint half-open intervals.
C31_SlotsPartitionTime ==
    (fout.fn = "current_slot") =>
        \A u \in ClockInstants :
            LET other == current_slot(u, fin.slot_minutes)
            IN  \/ other = fout.r
                \/ other[2] <= fout.r[1]
                \/ fout.r[2] <= other[1]

\* C33: should_prompt gives the same decision with skip_if_any_event true as
\* with it false, whatever the slot holds and whatever the focus rule is.
C33_SkipRuleIsNotRead ==
    (fout.fn = "should_prompt twice") =>
        /\ fout.on.value = fout.off.value
        /\ fout.on.raised = fout.off.raised

\* C33 witness: a slot that holds one event other than the placeholder is
\* rejected under both values of the rule.
C33_Witness ==
    /\ fout.fn = "should_prompt twice"
    /\ ~fout.on.raised /\ Len(fout.on.evs) = 1
    /\ ~fout.on.value /\ ~fout.off.value

CodeLength == 6

\* _make_code(6, string.ascii_uppercase): codes the run can draw
LetterCodes == {<<"Q", "W", "E", "R", "T", "Y">>, <<"C", "A", "N", "C", "E", "L">>}

\* _make_code(6, string.digits)
DigitCodes == {<<"1", "2", "3", "4", "5", "6">>}

Cancel == <<"c", "a", "n", "c", "e", "l">>

\* the lines a user can type at a gate that shows `code`
TypedLines(code) ==
    {code, <<" ">> \o code \o <<" ">>, lower(code), SubSeq(code, 1, CodeLength - 1),
     <<>>, <<" ">>, Cancel, <<"C">> \o Tail(Cancel), <<"1", "2", "3", "4", "5", "6">>}

\* faulty variant: the typed code is compared without regard to case
require_typed_confirmation_AnyCase(line, code, allow_cancel) ==
    LET typed == strip(line)
    IN  IF typed = <<>> THEN FALSE
        ELSE IF allow_cancel /\ lower(typed) = Cancel THEN FALSE
        ELSE lower(typed) = lower(code)

\* require_typed_confirmation(header_lines, code, prompt, allow_cancel, prefix)
\* on the line that input() returns
require_typed_confirmation(line, code, allow_cancel) ==
    LET typed == strip(line)
    IN  IF typed = <<>> THEN FALSE
        ELSE IF allow_cancel /\ lower(typed) = Cancel THEN FALSE
        ELSE typed = code

NoSelector == "missing"

\* the page operations of one step, in call order, with the printed line as
\* "print"; every one of them is under `if not dry_run`
StepOps_IgnoresDryRun(s, dry_run) ==
    CASE s.action = "goto" -> <<"print", "goto", "wait_for_load_state">>
      [] s.action = "click" -> <<"print", "wait_for_selector", "click">>
      [] s.action = "fill" -> <<"print", "wait_for_selector", "fill">>
      [] s.action = "press" -> <<"print", "wait_for_selector", "press">>
      [] s.action = "select" -> <<"print", "wait_for_selector", "select_option">>
      [] s.action = "submit" -> <<"print", "evaluate", "wait_for_load_state">>
      [] s.action = "tab" ->
            (IF s.selector # NoSelector
             THEN <<"print", "wait_for_selector", "click">> ELSE <<>>)
            \o <<"print">>
            \o [k \in 1..(IF s.count > 1 THEN s.count ELSE 1) |-> "keyboard.press"]
      [] OTHER -> <<"print">>

\* perform_steps: what one step prints and calls on the page
StepOps(s, dry_run) ==
    IF dry_run
    THEN [k \in 1..Cardinality({j \in DOMAIN StepOps_IgnoresDryRun(s, dry_run) :
                                StepOps_IgnoresDryRun(s, dry_run)[j] = "print"}) |-> "print"]
    ELSE StepOps_IgnoresDryRun(s, dry_run)

\* s["selector"] of a step that has no selector raises KeyError
StepIsMalformed(s) ==
    s.action \in {"click", "fill", "press", "select"} /\ s.selector = NoSelector

MonthNumber(b) == CASE b = "Oct" -> 10 [] b = "Nov" -> 11 [] OTHER -> 12

\* _parse_date_key: datetime.strptime(s, "%d/%b/%y"), as an ordinal
parse_date_key(k) == ((2000 + k.y) * 100 + MonthNumber(k.b)) * 100 + k.d

Digit(c) ==
    CASE c = "0" -> 0 [] c = "1" -> 1 [] c = "2" -> 2 [] c = "3" -> 3 [] c = "4" -> 4
      [] c = "5" -> 5 [] c = "6" -> 6 [] c = "7" -> 7 [] c = "8" -> 8 [] OTHER -> 9

IsDigits(s) ==
    s # <<>> /\ \A i \in 1..Len(s) : s[i] \in {"0", "1", "2", "3", "4", "5", "6", "7", "8", "9"}

RECURSIVE int(_)
\* int(s) of a string of digits
int(s) == IF s = <<>> THEN 0 ELSE int(SubSeq(s, 1, Len(s) - 1)) * 10 + Digit(s[Len(s)])

\* s.rsplit(" ", 1)[-1]
AfterLastSpace(s) ==
    LET sp == {i \in 1..Len(s) : s[i] = " "}
    IN  IF sp = {} THEN s ELSE SubSeq(s, (CHOOSE i \in sp : \A j \in sp : j <= i) + 1, Len(s))

\* _parse_start_minutes: hh * 60 + mm of the last word, 0 when it has no such form
parse_start_minutes(s) ==
    LET hhmm == AfterLastSpace(s)
        col == {i \in 1..Len(hhmm) : hhmm[i] = ":"}
        c == CHOOSE i \in col : TRUE
        hh == SubSeq(hhmm, 1, c - 1)
        mm == SubSeq(hhmm, c + 1, Len(hhmm))
    IN  IF Cardinality(col) = 1 /\ IsDigits(hh) /\ IsDigits(mm)
        THEN int(hh) * 60 + int(mm)
        ELSE 0

\* the sort key of a row: (date of the key, start minutes)
RowBefore(a, b) ==
    \/ a.date < b.date
    \/ a.date = b.date /\ a.minute < b.minute

RECURSIVE InsertRow(_, _)
InsertRow(sorted, row) ==
    IF sorted = <<>> THEN <<row>>
    ELSE IF RowBefore(row, Head(sorted)) THEN <<row>> \o sorted
    ELSE <<Head(sorted)>> \o InsertRow(Tail(sorted), row)

RECURSIVE sort(_)
\* rows.sort(key=lambda x: (x[0], x[1])), a stable sort
sort(rows) ==
    IF rows = <<>> THEN <<>>
    ELSE InsertRow(sort(SubSeq(rows, 1, Len(rows) - 1)), rows[Len(rows)])

NoDate == [d |-> 0, b |-> None, y |-> 0]

RECURSIVE RowsOf(_, _)
\* the rows of the export in file order, filtered by --date
RowsOf(raw, only_date) ==
    IF raw = <<>> THEN <<>>
    ELSE LET g == Head(raw)
         IN  (IF only_date # NoDate /\ g.date_key # only_date THEN <<>>
              ELSE [i \in 1..Len(g.entries) |->
                      [date |-> parse_date_key(g.date_key),
                       minute |-> parse_start_minutes(g.entries[i].start),
                       entry |-> g.entries[i]]])
             \o RowsOf(Tail(raw), only_date)

\* flatten_jira_export(path, only_date): the events in replay order
flatten_jira_export(raw, only_date) ==
    LET rows == sort(RowsOf(raw, only_date))
    IN  [i \in 1..Len(rows) |->
           [subject |-> rows[i].entry.subject, date |-> rows[i].entry.date,
            start |-> rows[i].entry.start]]

\* events[: max(0, int(limit))]; no --limit is the empty sequence
Truncate(events, limit) ==
    IF limit = <<>> THEN events
    ELSE LET n == IF limit[1] > 0 THEN limit[1] ELSE 0
         IN  SubSeq(events, 1, IF n < Len(events) THEN n ELSE Len(events))

CanceledMark == <<"C", "a", "n", "c", "e", "l", "e", "d", ":", " ">>

\* [e for e in events if "Canceled: " in subject]
canceled(events) == {i \in 1..Len(events) : Contains(CanceledMark, events[i].subject)}

(***************************************************************************)
(* batch_replay as a state machine: the export and the plan are drawn by   *)
(* the initial state, the typed lines and the page's failures by the steps.*)
(* fout.log is the sequence of prompts, browser calls and printed steps.   *)
(***************************************************************************)
Nov03 == [d |-> 3, b |-> "Nov", y |-> 25]

Oct28 == [d |-> 28, b |-> "Oct", y |-> 25]

\* "Mon, Nov 03 09:00" and "Mon, Nov 03 10:30", shortened to the last two words
At0900 == <<"3", " ", "0", "9", ":", "0", "0">>

At1030 == <<"3", " ", "1", "0", ":", "3", "0">>

Entry(date, start, subject) == [date |-> date, start |-> start, subject |-> subject]

\* jira_export_W<week>.json: date key -> entries, in file order
ExportSamples ==
    << <<>>,
       <<[date_key |-> Nov03,
          entries |-> <<Entry(Nov03, At1030, <<"b">>), Entry(Nov03, At0900, <<"a">>)>>],
         [date_key |-> Oct28, entries |-> <<Entry(Oct28, <<>>, <<"p">>)>>]>>,
       <<[date_key |-> Nov03,
          entries |-> <<Entry(Nov03, At0900, CanceledMark \o <<"x">>)>>]>>,
       <<[date_key |-> Nov03,
          entries |-> <<Entry(Nov03, At1030, <<"a">>), Entry(Nov03, <<"x">>, <<"b">>)>>],
         [date_key |-> Oct28,
          entries |-> <<Entry(Oct28, At0900, <<" ">> \o CanceledMark)>>]>> >>

Step(action, selector, count) == [action |-> action, selector |-> selector, count |-> count]

\* steps.json: the "steps" list
PlanSamples ==
    << <<>>,
       <<Step("goto", NoSelector, 1), Step("click", "#ok", 1)>>,
       <<Step("fill", "#f", 1), Step("click", NoSelector, 1)>>,
       <<Step("tab", "#f", 2), Step("submit", NoSelector, 1)>>,
       <<Step("press", "#f", 1), Step("select", "#f", 1), Step("hover", "#f", 1)>> >>

\* --limit: absent, or an integer
LimitSamples == {<<>>, <<-1>>, <<1>>, <<2>>}

InitReplay ==
    /\ NotRunning
    /\ fin \in [export : 1..Len(ExportSamples), plan : 1..Len(PlanSamples),
                 dry_run : BOOLEAN, only_date : {NoDate, Nov03}, limit : LimitSamples]
    /\ fout = NoOut

OnlyReplay ==
    UNCHANGED <<cfg, args, clock, pc, trigger, loc, last_slot_key_prompted, was_idle,
                state, items, ev, watch, wb, wr, idle_seen, fin>>

Op(op, idx, i) == [op |-> op, idx |-> idx, i |-> i]

\* batch_replay up to the gates: load the plan and the events
LoadReplay ==
    /\ fout.fn = "none"
    /\ LET events == Truncate(flatten_jira_export(ExportSamples[fin.export], fin.only_date),
                              fin.limit)
       IN  fout' = [fn |-> "batch_replay", events |-> events,
                    steps |-> PlanSamples[fin.plan], log |-> <<>>, gates |-> <<>>,
                    idx |-> 0, i |-> 0, browser |-> FALSE, raised |-> FALSE,
                    phase |-> IF events = <<>> THEN "returned"
                              ELSE IF ~fin.dry_run THEN "gate1" ELSE "connect"]
    /\ OnlyReplay

\* the first gate: a 6-letter code
ConfirmRun ==
    /\ fout.fn = "batch_replay" /\ fout.phase = "gate1"
    /\ \E run_code \in LetterCodes : \E line \in TypedLines(run_code) :
         LET ok == require_typed_confirmation(line, run_code, TRUE)
         IN  fout' = [fout EXCEPT
                        !.log = Append(@, Op("input", 0, 0)),
                        !.gates = Append(@, [code |-> run_code, line |-> line, ok |-> ok]),
                        !.phase = IF ~ok THEN "returned"
                                  ELSE IF canceled(fout.events) # {} THEN "gate2"
                                  ELSE "connect"]
    /\ OnlyReplay

\* the second gate: a 6-digit code, when a subject contains "Canceled: "
ConfirmCanceled ==
    /\ fout.fn = "batch_replay" /\ fout.phase = "gate2"
    /\ \E canceled_code \in DigitCodes : \E line \in TypedLines(canceled_code) :
         LET ok2 == require_typed_confirmation(line, canceled_code, TRUE)
         IN  fout' = [fout EXCEPT
                        !.log = Append(@, Op("input", 0, 0)),
                        !.gates = Append(@, [code |-> canceled_code, line |-> line,
                                             ok |-> ok2]),
                        !.phase = IF ~ok2 THEN "returned" ELSE "connect"]
    /\ OnlyReplay

\* connect_browser_for_replay(p), which may raise
Connect ==
    /\ fout.fn = "batch_replay" /\ fout.phase = "connect"
    /\ \E ok \in BOOLEAN :
         fout' = [fout EXCEPT
                    !.log = Append(@, Op("connect", 0, 0)),
                    !.browser = ok,
                    !.raised = ~ok,
                    !.idx = IF ok THEN 1 ELSE 0,
                    !.i = IF ok /\ fout.steps # <<>> THEN 1 ELSE 0,
                    !.phase = IF ok /\ fout.steps # <<>> THEN "steps" ELSE "close"]
    /\ OnlyReplay

\* the calls that can raise: every page operation
FaultPoints(ops) == {0} \cup {k \in 1..Len(ops) : ops[k] # "print"}

\* except Exception: the screenshot of perform_steps, then that of batch_replay
Screenshots(idx, i) == <<Op("screenshot", idx, i), Op("screenshot", idx, 0)>>

\* faulty variant: a failed step is logged and the replay goes on
AfterStep_GoesOn(o, failed) ==
    IF o.i < Len(o.steps) THEN [o EXCEPT !.i = @ + 1]
    ELSE IF o.idx < Len(o.events) THEN [o EXCEPT !.idx = @ + 1, !.i = 1]
    ELSE [o EXCEPT !.phase = "close"]

\* the two loops: the next step, the next event, or the end; a raise leaves both
AfterStep(o, failed) ==
    IF failed THEN [o EXCEPT !.raised = TRUE, !.phase = "close"]
    ELSE AfterStep_GoesOn(o, failed)

\* perform_steps: one step of the current event
PerformStep ==
    /\ fout.fn = "batch_replay" /\ fout.phase = "steps"
    /\ LET s == fout.steps[fout.i]
           ops == StepOps(s, fin.dry_run)
       IN  IF StepIsMalformed(s)
           THEN fout' = AfterStep([fout EXCEPT !.log = @ \o Screenshots(fout.idx, fout.i)],
                                  TRUE)
           ELSE \E k \in FaultPoints(ops) :
                  LET done == IF k = 0 THEN ops ELSE SubSeq(ops, 1, k)
                      log == fout.log
                             \o [j \in 1..Len(done) |-> Op(done[j], fout.idx, fout.i)]
                             \o (IF k = 0 THEN <<>> ELSE Screenshots(fout.idx, fout.i))
                  IN  fout' = AfterStep([fout EXCEPT !.log = log], k # 0)
    /\ OnlyReplay

\* finally: browser.close() if the connection was made; the error propagates
CloseBrowser ==
    /\ fout.fn = "batch_replay" /\ fout.phase = "close"
    /\ fout' = [fout EXCEPT
                  !.log = IF fout.browser THEN Append(@, Op("close", 0, 0)) ELSE @,
                  !.phase = IF fout.raised THEN "raised" ELSE "done"]
    /\ OnlyReplay

NextReplay == LoadReplay \/ ConfirmRun \/ ConfirmCanceled \/ Connect \/ PerformStep
              \/ CloseBrowser

SpecReplay == InitReplay /\ [][NextReplay]_vars

(***************************************************************************)
(* Properties of the batch replay                                          *)
(***************************************************************************)
\* the operations perform_steps can call on the page
PageOperations ==
    {"goto", "wait_for_load_state", "wait_for_selector", "click", "fill", "press",
     "select_option", "evaluate", "keyboard.press"}

\* the browser was connected to, or a page operation was called
Acted(log) == \E k \in DOMAIN log : log[k].op \in PageOperations \cup {"connect"}

\* the answers that require_typed_confirmation turns down
Refused(g) ==
    LET typed == strip(g.line)
    IN  typed = <<>> \/ lower(typed) = Cancel \/ typed # g.code

EventKey(e) == [date |-> parse_date_key(e.date), minute |-> parse_start_minutes(e.start)]

\* the log entries of steps, which carry the event and the step they belong to
StepEntries(log) == {k \in DOMAIN log : log[k].i > 0}

\* C36: the events are replayed in ascending (date, start minute) order; after the
\* first step that raises no later step of that event and no later event is
\* performed, the run ends with the error and not as completed, and on both ends
\* a connected browser is closed last.
C36_OrderedAndStopsAtFirstFailure ==
    fout.fn = "batch_replay" =>
        /\ \A j \in DOMAIN fout.events : \A k \in DOMAIN fout.events :
              j < k => ~RowBefore(EventKey(fout.events[k]), EventKey(fout.events[j]))
        /\ \A j \in StepEntries(fout.log) : \A k \in StepEntries(fout.log) :
              j < k => \/ fout.log[j].idx < fout.log[k].idx
                       \/ /\ fout.log[j].idx = fout.log[k].idx
                          /\ fout.log[j].i <= fout.log[k].i
        /\ \A f \in StepEntries(fout.log) :
              fout.log[f].op = "screenshot" =>
                  /\ fout.raised
                  /\ fout.phase \in {"close", "raised"}
                  /\ \A k \in StepEntries(fout.log) : k <= f
        /\ fout.raised => fout.phase \in {"close", "raised"}
        /\ (fout.phase \in {"done", "raised"} /\ fout.browser) =>
              /\ fout.log[Len(fout.log)] = Op("close", 0, 0)
              /\ Cardinality({k \in DOMAIN fout.log : fout.log[k].op = "close"}) = 1

\* a click of the first of three events failed: the run ended with the error and
\* the browser closed, and the events had been reordered by date and start
C36_Witness ==
    /\ fout.fn = "batch_replay" /\ fout.phase = "raised" /\ fout.browser
    /\ Len(fout.events) = 3
    /\ fout.events[1].date = Oct28 /\ fout.events[2].start = At0900
    /\ \E k \in DOMAIN fout.log : fout.log[k] = Op("click", 1, 2)
    /\ \E k \in DOMAIN fout.log : fout.log[k] = Op("screenshot", 1, 2)
    /\ fout.log[Len(fout.log)].op = "close"

(***************************************************************************)
(* src/toe.py: POST /edits/<week>, handled by two threads of the server.   *)
(* The edits of a week are a set of <<event_id, subject>> with one subject *)
(* per event_id; fout.file is event_edits_W<week>.json.                    *)
(***************************************************************************)
\* edits[event_id] = {"subject": subject}
put(edits, event_id, subject) ==
    {e \in edits : e[1] # event_id} \cup {<<event_id, subject>>}

\* the edits file before the requests: absent, or an earlier edit
StoredSamples == {{}, {<<"e0", <<"o">>>>}, {<<"e1", <<"o">>>>}}

\* the JSON bodies: event_id ("" when missing) and subject
PostSamples == [event_id : {"", "e1", "e2"}, subject : {<<"s">>, <<" ", "t">>, <<" ">>}]

Handlers == {1, 2}

InitEdits ==
    /\ NotRunning
    /\ fin \in [stored : StoredSamples, post : [Handlers -> PostSamples]]
    /\ fin.post[1].event_id # fin.post[2].event_id
    /\ fout = NoOut

OnlyEdits ==
    UNCHANGED <<cfg, args, clock, pc, trigger, loc, last_slot_key_prompted, was_idle,
                state, items, ev, watch, wb, wr, idle_seen, fin>>

\* the two requests arrive
ReceivePosts ==
    /\ fout.fn = "none"
    /\ fout' = [fn |-> "edits_api", file |-> fin.stored,
                h |-> [n \in Handlers |->
                         [at |-> "received", event_id |-> fin.post[n].event_id,
                          subject |-> strip(fin.post[n].subject), edits |-> {}]]]
    /\ OnlyEdits

\* edits_api: the 400 answer, or edits = _load_edits(week_num)
LoadEdits(n) ==
    /\ fout.fn = "edits_api" /\ fout.h[n].at = "received"
    /\ fout' = IF fout.h[n].event_id = "" \/ fout.h[n].subject = <<>>
               THEN [fout EXCEPT !.h[n].at = "400"]
               ELSE [fout EXCEPT !.h[n].at = "loaded", !.h[n].edits = fout.file]
    /\ OnlyEdits

\* edits_api: edits[event_id] = ...; _save_edits(week_num, edits); "Saved"
SaveEdits(n) ==
    /\ fout.fn = "edits_api" /\ fout.h[n].at = "loaded"
    /\ LET edits == put(fout.h[n].edits, fout.h[n].event_id, fout.h[n].subject)
       IN  fout' = [fout EXCEPT !.h[n].at = "saved", !.h[n].edits = edits, !.file = edits]
    /\ OnlyEdits

NextEdits == ReceivePosts \/ (\E n \in Handlers : LoadEdits(n) \/ SaveEdits(n))

SpecEdits == InitEdits /\ [][NextEdits]_vars

\* C37: when two POSTs for different event_ids have both been answered "Saved",
\* the edits file holds both edits and every edit stored before them.
C37_NoEditIsLost ==
    (/\ fout.fn = "edits_api"
     /\ \A n \in Handlers : fout.h[n].at = "saved") =>
        /\ \A n \in Handlers : <<fout.h[n].event_id, fout.h[n].subject>> \in fout.file
        /\ \A e \in fin.stored :
              (\A n \in Handlers : e[1] # fout.h[n].event_id) => e \in fout.file

(***************************************************************************)
(* src/toe.py: POST /generate_json/<week>, the Jira export of a week.      *)
(* Category names and tokens are strings of characters; an absent or empty *)
(* string is <<>>; an event id "start|end|date" is the triple of its parts.*)
(***************************************************************************)
PtoOrSick == <<"P", "T", "O">>

DefaultPtoTimecode == "DXGLV-10 - Sick or PTO"

\* CONFIG["categories"] of the dashboard: config key, Outlook name, timecodes
ExportCategorySamples ==
    << <<[name |-> <<"D">>, outlook_category |-> <<"B", " ">>, jira_timecodes |-> <<"TC-1">>],
         [name |-> <<"O">>, outlook_category |-> <<>>, jira_timecodes |-> <<>>]>>,
       <<[name |-> <<"D">>, outlook_category |-> <<"B">>, jira_timecodes |-> <<"TC-1", "TC-2">>],
         [name |-> PtoOrSick, outlook_category |-> <<>>, jira_timecodes |-> <<"PTO-1">>]>> >>

\* outlook_to_cfg.get(tok): the last category whose stripped Outlook name (or
\* key, when it has none) is tok; <<>> when there is none
outlook_to_cfg(cats, tok) ==
    LET hits == {i \in 1..Len(cats) :
                   strip(IF cats[i].outlook_category # <<>> THEN cats[i].outlook_category
                         ELSE cats[i].name) = tok}
    IN  IF hits = {} THEN <<>> ELSE cats[CHOOSE i \in hits : \A j \in hits : j <= i].name

\* cfg_to_jira[cfg_key]
cfg_to_jira(cats, cfg_key) ==
    LET hits == {i \in 1..Len(cats) : cats[i].name = cfg_key}
    IN  IF hits = {} THEN <<>>
        ELSE cats[CHOOSE i \in hits : \A j \in hits : j <= i].jira_timecodes

\* outlook_to_cfg.get(tok) or (tok if tok in cfg_to_jira else None)
cfg_key_of(cats, tok) ==
    IF outlook_to_cfg(cats, tok) # <<>> THEN outlook_to_cfg(cats, tok)
    ELSE IF \E i \in 1..Len(cats) : cats[i].name = tok THEN tok
    ELSE <<>>

\* [c.strip() for c in categories.split(",") if c.strip()], on the split parts
tokens_of(parts) == SelectSeq([i \in 1..Len(parts) |-> strip(parts[i])], LAMBDA c : c # <<>>)

RECURSIVE mapped_timecodes(_, _)
\* the timecodes of the tokens that map to a configured category, in order
mapped_timecodes(cats, tokens) ==
    IF tokens = <<>> THEN <<>>
    ELSE (IF cfg_key_of(cats, Head(tokens)) = <<>> THEN <<>>
          ELSE cfg_to_jira(cats, cfg_key_of(cats, Head(tokens))))
         \o mapped_timecodes(cats, Tail(tokens))

\* pto_full_dates
pto_full_dates(rows) ==
    {rows[i].date : i \in {j \in 1..Len(rows) : rows[j].status = "full" /\ rows[j].date # ""}}

\* the last row of a date among the rows picked by a dict comprehension
LastRow(rows, picked, date) ==
    rows[CHOOSE i \in picked : rows[i].date = date
                               /\ \A j \in picked : rows[j].date = date => j <= i]

\* pto_partial_hours: date -> hours of its last "half" row
HalfRows(rows) == {j \in 1..Len(rows) : rows[j].status = "half" /\ rows[j].date # ""}

pto_partial_dates(rows) == {rows[i].date : i \in HalfRows(rows)}

pto_partial_hours(rows, date) == LastRow(rows, HalfRows(rows), date).hours

\* pto_reason_by_date.get(date_str, "PTO")
pto_reason(rows, date) ==
    LET dated == {j \in 1..Len(rows) : rows[j].date # ""}
        reason == LastRow(rows, dated, date).reason
    IN  IF reason # "" THEN reason ELSE "PTO"

\* (pto_cfg.get("jira_timecodes") or [default])[0]
pto_tc_full(cats) ==
    IF cfg_to_jira(cats, PtoOrSick) # <<>> THEN cfg_to_jira(cats, PtoOrSick)[1]
    ELSE DefaultPtoTimecode

\* f"{hours:g}"
HoursG(hours) == CASE hours = 4 -> "4" [] hours = 8 -> "8" [] OTHER -> "?"

\* edits.get(event_id, {}).get("subject", e.get("subject", ""))
edited_subject(edits, e) ==
    LET id == <<e.start, e.end, e.date>>
    IN  IF \E x \in edits : x[1] = id
        THEN (CHOOSE x \in edits : x[1] = id)[2]
        ELSE e.subject

RECURSIVE SetToSeq(_)
\* iteration over a set or a dict, in some order
SetToSeq(S) ==
    IF S = {} THEN <<>> ELSE LET x == CHOOSE y \in S : TRUE IN <<x>> \o SetToSeq(S \ {x})

\* generate_json: the entries of the events that have a mapped timecode
MappedEntries(cats, events, edits) ==
    LET kept == SelectSeq(events, LAMBDA e :
                    mapped_timecodes(cats, tokens_of(e.categories)) # <<>>)
    IN  [i \in 1..Len(kept) |->
           [jira_categories |-> mapped_timecodes(cats, tokens_of(kept[i].categories)),
            subject |-> edited_subject(edits, kept[i]),
            duration_minutes |-> kept[i].duration_minutes,
            start |-> kept[i].start, end |-> kept[i].end, date |-> kept[i].date]]

\* generate_json: the loop over the calendar events, full PTO days skipped
EventEntries(cats, events, rows, edits) ==
    MappedEntries(cats, SelectSeq(events, LAMBDA e : e.date \notin pto_full_dates(rows)),
                  edits)

\* generate_json: one entry per full PTO date
FullEntries(cats, rows) ==
    LET dates == SetToSeq(pto_full_dates(rows))
    IN  [i \in 1..Len(dates) |->
           [jira_categories |-> <<pto_tc_full(cats)>>,
            subject |-> <<pto_reason(rows, dates[i]), " - Full Day">>,
            duration_minutes |-> 8 * 60,
            start |-> "", end |-> "", date |-> dates[i]]]

\* generate_json: one entry per half day with hours above 0
PartialEntries(cats, rows) ==
    LET dates == SelectSeq(SetToSeq(pto_partial_dates(rows)),
                           LAMBDA d : pto_partial_hours(rows, d) > 0)
    IN  [i \in 1..Len(dates) |->
           [jira_categories |-> <<pto_tc_full(cats)>>,
            subject |-> <<pto_reason(rows, dates[i]), " - Partial (",
                          HoursG(pto_partial_hours(rows, dates[i])), "h)">>,
            duration_minutes |-> pto_partial_hours(rows, dates[i]) * 60,
            start |-> "", end |-> "", date |-> dates[i]]]

\* generate_json(week_num): the entries of jira_export_W<week>.json, in the order
\* they are appended
generate_json(cats, events, rows, edits) ==
    EventEntries(cats, events, rows, edits) \o FullEntries(cats, rows)
    \o PartialEntries(cats, rows)

CalEvent(date, start, end, subject, categories) ==
    [date |-> date, start |-> start, end |-> end, subject |-> subject,
     categories |-> categories, duration_minutes |-> 30]

\* events_W<week>.json: the "events" list; the categories string is given by its
\* comma-separated parts
WeekSamples ==
    << <<CalEvent("d1", "09:00", "09:30", <<"a">>, <<<<"B">>>>),
         CalEvent("d2", "10:00", "10:30", <<"b">>, <<<<" ", "D">>, <<"X">>>>),
         CalEvent("d1", "11:00", "11:30", <<"c">>, <<<<"X">>, <<" ">>>>),
         CalEvent("d2", "12:00", "12:30", <<"d">>, <<<<"O">>>>)>>,
       <<CalEvent("d2", "09:00", "09:30", <<"a">>, <<<<"D">>, <<"B">>>>),
         CalEvent("d2", "10:00", "10:30", <<"b">>, <<>>)>> >>

\* event_edits_W<week>.json
EditSamples ==
    {{}, {<<<<"09:00", "09:30", "d1">>, <<"z">>>>},
     {<<<<"10:00", "10:30", "d2">>, <<"y">>>>, <<<<"11:00", "11:30", "d1">>, <<"x">>>>}}

\* the rows of the "pto" list of the request
PtoRowSamples ==
    [date : {"d1", "d2"}, status : {"full", "half", "none"}, hours : {0, 4, 8},
     reason : {"Sick"}]
    \cup {[date |-> "", status |-> "full", hours |-> 8, reason |-> "Sick"],
          [date |-> "d1", status |-> "half", hours |-> 4, reason |-> ""]}

PtoPayloads == UNION {[1..n -> PtoRowSamples] : n \in 0..MaxItems}

InitExport ==
    /\ NotRunning
    /\ fin \in [week : 0..Len(WeekSamples), cats : 1..Len(ExportCategorySamples),
                 pto : PtoPayloads, edits : EditSamples]
    /\ fout = NoOut

\* POST /generate_json/<week>: 404 without the events file, else the export
GenerateJson ==
    /\ fout.fn = "none"
    /\ fout' = IF fin.week = 0
               THEN [fn |-> "generate_json", code |-> 404, out |-> <<>>]
               ELSE [fn |-> "generate_json", code |-> 200,
                     out |-> generate_json(ExportCategorySamples[fin.cats],
                                           WeekSamples[fin.week], fin.pto, fin.edits)]
    /\ UNCHANGED <<cfg, args, clock, pc, trigger, loc, last_slot_key_prompted, was_idle,
                   state, items, ev, watch, wb, wr, idle_seen, fin>>

NextExport == GenerateJson

SpecExport == InitExport /\ [][NextExport]_vars

\* the entries of calendar events and of PTO in an export
EventEntriesOf(out) == {k \in DOMAIN out : out[k].start # ""}

PtoEntriesOf(out) == {k \in DOMAIN out : out[k].start = ""}

\* the dates the payload marks as full PTO
FullPtoDates == {fin.pto[i].date : i \in {j \in DOMAIN fin.pto :
                    fin.pto[j].status = "full" /\ fin.pto[j].date # ""}}

\* the events of the week file that produced an entry
SourcesOf(entry) ==
    {i \in DOMAIN WeekSamples[fin.week] :
       LET e == WeekSamples[fin.week][i]
       IN  e.start = entry.start /\ e.end = entry.end /\ e.date = entry.date}

\* a part of the categories string names a category that has a timecode
HasMappedCategory(e) ==
    \E p \in DOMAIN e.categories :
       \E c \in DOMAIN ExportCategorySamples[fin.cats] :
          LET cat == ExportCategorySamples[fin.cats][c]
          IN  /\ cat.jira_timecodes # <<>>
              /\ strip(e.categories[p]) # <<>>
              /\ \/ strip(e.categories[p]) = cat.name
                 \/ strip(e.categories[p]) = strip(cat.outlook_category)

\* no exported calendar event is dated on a full PTO date, each has a category
\* mapped to a timecode, and each carries the edited subject when an edit exists
\* for its start|end|date
EventsOfTheExportAreSound ==
    (fout.fn = "generate_json" /\ fout.code = 200) =>
        \A k \in EventEntriesOf(fout.out) :
           /\ fout.out[k].date \notin FullPtoDates
           /\ fout.out[k].jira_categories # <<>>
           /\ SourcesOf(fout.out[k]) # {}
           /\ \A i \in SourcesOf(fout.out[k]) : HasMappedCategory(WeekSamples[fin.week][i])
           /\ \A x \in fin.edits :
                 x[1] = <<fout.out[k].start, fout.out[k].end, fout.out[k].date>>
                 => fout.out[k].subject = x[2]

\* the export has exactly one 480-minute PTO entry per full PTO date, and a
\* partial PTO entry only for a half day with hours above 0
PtoOfTheExportIsSound ==
    (fout.fn = "generate_json" /\ fout.code = 200) =>
        /\ \A d \in FullPtoDates :
              Cardinality({k \in PtoEntriesOf(fout.out) :
                             fout.out[k].date = d /\ fout.out[k].duration_minutes = 480}) = 1
        /\ \A k \in PtoEntriesOf(fout.out) :
              fout.out[k].subject[2] # " - Full Day" =>
                  \E j \in DOMAIN fin.pto :
                     /\ fin.pto[j].status = "half" /\ fin.pto[j].hours > 0
                     /\ fin.pto[j].date = fout.out[k].date

\* C38: for every week file and PTO payload the export holds no calendar event of
\* a full PTO date, exactly one 480-minute PTO entry per full PTO date, a partial
\* PTO entry only for a half day with hours above 0, only calendar events with a
\* category mapped to a timecode, and the edited subject of every edited event.
C38_ExportMatchesEventsAndPto == EventsOfTheExportAreSound /\ PtoOfTheExportIsSound

====
